---- MODULE Spec2Model ----
(***************************************************************************)
(* A state-machine model of yt_tools_cli: the learned search models and    *)
(* their persistence (SearchModel, _load_model, _save_model), the session  *)
(* quota ledger (_track_quota), the paginated fetches (get_playlist_items, *)
(* get_my_playlists), the search pipeline (advanced_search, search_videos, *)
(* score_video) and the training loop (training_session,                   *)
(* generate_gameplay_playlist).                                            *)
(***************************************************************************)
EXTENDS Integers, Sequences, FiniteSets, TLC

VARIABLES
    models,            \* YouTubeTools.models: game type -> SearchModel
    store,             \* the files model_<game_type>.json
    ret,               \* how the last operation came back to its caller
    fpc,               \* the paginated fetch in progress: "idle", "items", "mine"
    items,             \* get_playlist_items.items / get_my_playlists.playlists
    next_page_token,   \* the cursor of the next request, "None" for None
    sent,              \* the pageToken of every request of this fetch, in order
    received,          \* the nextPageToken of every response of this fetch
    channel_id,        \* get_playlist_items' channel filter, "" for None
    served,            \* every item the provider returned during this fetch
    page_failed,       \* whether a page request of this fetch raised
    session_quota_used,\* YouTubeTools.session_quota_used
    sv_pc,             \* search_videos: "idle" or "searching"
    sv_args,           \* its arguments game_name, game_type, category
    sv_index,          \* how many query templates its loop has gone through
    all_results,       \* search_videos.all_results: (video, score) pairs
    sv_failed,         \* the templates whose advanced_search call failed
    pc,                \* where the program is: "main", "train_menu", "generate", "crashed"
    last_search_game,  \* YouTubeTools._last_search_game, <<>> for None
    t_args,            \* training_session's game_name and game_type
    t_results,         \* training_session.results
    g_args,            \* generate_gameplay_playlist's game_name and game_type
    g_sections,        \* its sections so far: the results shown and the selection
    sess_target,       \* for each session exclusion, the targets it was added for
    playlist_history,  \* YouTubeTools.playlist_history
    history_file,      \* playlist_history.json
    account,           \* the operator's playlists at the provider
    playlists          \* list_my_playlists.playlists, fetched when its menu opens

fetchVars == <<fpc, items, next_page_token, sent, received, channel_id, served,
               page_failed>>

storeVars == <<models, store>>

quotaVars == <<session_quota_used>>

searchVars == <<sv_pc, sv_args, sv_index, all_results, sv_failed>>

trainVars == <<pc, last_search_game, t_args, t_results, g_args, g_sections,
               sess_target>>

historyVars == <<playlist_history, history_file>>

accountVars == <<account, playlists>>

\* What the operations of one component leave alone.
notStoreVars == <<fetchVars, quotaVars, searchVars, trainVars, historyVars, accountVars>>

notFetchVars == <<storeVars, quotaVars, searchVars, trainVars, historyVars, accountVars>>

notQuotaVars == <<storeVars, fetchVars, searchVars, trainVars, historyVars, accountVars>>

notSearchVars == <<store, fetchVars, trainVars, historyVars, accountVars>>

vars == <<models, store, ret, fpc, items, next_page_token, sent, received,
          channel_id, served,
          page_failed, session_quota_used, sv_pc, sv_args, sv_index,
          all_results, sv_failed, pc, last_search_game, t_args, t_results,
          g_args, g_sections, sess_target, playlist_history, history_file,
          account, playlists>>

----------------------------------------------------------------------------
(* Value domains *)

GameTypes == {"board", "video"}

\* Phrases an operator may type; "X" differs from "x" only in letter case.
Phrases == {"x", "X"}

\* str.lower() on the phrases of the model.
Lower(p) == IF p = "X" THEN "x" ELSE p

\* A model file: missing, unreadable by json.load, or holding a saved
\* dictionary (data counts only in a saved file).
NoData == [persistent_exclusions |-> {}, trusted_channels |-> {}, noise_channels |-> {}]

Absent == [state |-> "absent", data |-> NoData]

Corrupt == [state |-> "corrupt", data |-> NoData]

Saved(data) == [state |-> "saved", data |-> data]

\* What the storage does when _save_model opens and writes the file:
\* "ok", the open fails (file untouched), or the write breaks off after the
\* open has truncated the file.
StorageOutcomes == {"ok", "open_fails", "write_fails"}

----------------------------------------------------------------------------
(* SearchModel *)

\* SearchModel.__init__: all four sets empty.
NewSearchModel ==
    [persistent_exclusions |-> {}, session_exclusions |-> {},
     trusted_channels |-> {}, noise_channels |-> {}]

\* A dictionary that writes every exclusion as a persistent one.
to_dict_all_exclusions(m) ==
    [persistent_exclusions |-> m.persistent_exclusions \cup m.session_exclusions,
     trusted_channels |-> m.trusted_channels,
     noise_channels |-> m.noise_channels]

\* SearchModel.to_dict: the session exclusions are not part of the dictionary.
to_dict(m) ==
    [persistent_exclusions |-> m.persistent_exclusions,
     trusted_channels |-> m.trusted_channels,
     noise_channels |-> m.noise_channels]

\* SearchModel.from_dict: a fresh model with the three persisted sets.
from_dict(data) ==
    [persistent_exclusions |-> data.persistent_exclusions,
     session_exclusions |-> {},
     trusted_channels |-> data.trusted_channels,
     noise_channels |-> data.noise_channels]

\* The in-memory effect of SearchModel.add_exclusion (lines 71-74).
add_exclusion(m, phrase, persistent) ==
    IF persistent
    THEN [m EXCEPT !.persistent_exclusions = @ \cup {Lower(phrase)}]
    ELSE [m EXCEPT !.session_exclusions = @ \cup {Lower(phrase)}]

\* The in-memory effect of SearchModel.remove_exclusion (lines 82-86).
remove_exclusion(m, phrase, persistent) ==
    IF persistent
    THEN [m EXCEPT !.persistent_exclusions = @ \ {Lower(phrase)}]
    ELSE [m EXCEPT !.session_exclusions = @ \ {Lower(phrase)}]

get_all_exclusions(m) == m.persistent_exclusions \cup m.session_exclusions

clear_session_exclusions(m) == [m EXCEPT !.session_exclusions = {}]

\* A setter that forgets to evict the channel from the noise set.
add_trusted_channel_no_evict(m, channel) ==
    [m EXCEPT !.trusted_channels = @ \cup {channel}]

add_trusted_channel(m, channel) ==
    [m EXCEPT !.trusted_channels = @ \cup {channel},
              !.noise_channels = @ \ {channel}]

\* A setter that forgets to evict the channel from the trusted set.
add_noise_channel_no_evict(m, channel) ==
    [m EXCEPT !.noise_channels = @ \cup {channel}]

add_noise_channel(m, channel) ==
    [m EXCEPT !.noise_channels = @ \cup {channel},
              !.trusted_channels = @ \ {channel}]

\* A save that writes nothing.
save_model_skipped(file, m, outcome) == file

\* YouTubeTools._load_model: the file's model when it exists and parses,
\* a default model otherwise (the exception is caught and printed).
load_model(file) ==
    IF file.state = "saved" THEN from_dict(file.data) ELSE NewSearchModel

\* YouTubeTools._save_model: the file after the attempt. Every exception is
\* caught and printed; open(..., 'w') has truncated the file when the write
\* itself fails.
save_model(file, m, outcome) ==
    CASE outcome = "ok" -> Saved(to_dict(m))
      [] outcome = "open_fails" -> file
      [] outcome = "write_fails" -> Corrupt

----------------------------------------------------------------------------
(* Results of operations *)

\* arg is the phrase or channel of the call ("" without one), before the
\* model of the game type as the call found it.
Returned(op, d, storage, arg, before) ==
    [op |-> op, game_type |-> d, kind |-> "return", storage |-> storage,
     arg |-> arg, before |-> before]

Raised(op, d, storage, arg, before) ==
    [op |-> op, game_type |-> d, kind |-> "raise", storage |-> storage,
     arg |-> arg, before |-> before]

Started ==
    [op |-> "__init__", game_type |-> "", kind |-> "return", storage |-> "unused",
     arg |-> "", before |-> NewSearchModel]

----------------------------------------------------------------------------
(* The learned model store, operation by operation *)

\* A response without nextPageToken, and next_page_token = None.
NoCursor == "None"

NoArgs == [game_name |-> <<>>, game_type |-> "", category |-> ""]

NoGame == <<>>

NoTarget == [game_name |-> NoGame, game_type |-> ""]

\* playlist_history.json before the first save.
NoHistoryFile == [state |-> "absent", data |-> <<>>]

\* YouTubeTools._load_history: the file's list, or an empty list when the file
\* is missing or cannot be read.
load_history(file) == IF file.state = "saved" THEN file.data ELSE <<>>

\* The account when the program starts: two playlists, playlist 1 older than
\* playlist 2, one video in both.
FirstAccount ==
    [ids |-> 5,
     lists |-> <<[id |-> 1, items |-> <<[id |-> 3, videoId |-> "v1"],
                                        [id |-> 4, videoId |-> "v2"]>>],
                 [id |-> 2, items |-> <<[id |-> 5, videoId |-> "v2"]>>]>>]

\* YouTubeTools.__init__: everything but the models.
InitRest ==
    /\ ret = Started
    /\ fpc = "idle"
    /\ items = <<>>
    /\ next_page_token = NoCursor
    /\ sent = <<>>
    /\ received = <<>>
    /\ channel_id = ""
    /\ served = <<>>
    /\ page_failed = FALSE
    /\ session_quota_used = 0
    /\ sv_pc = "idle"
    /\ sv_args = NoArgs
    /\ sv_index = 0
    /\ all_results = <<>>
    /\ sv_failed = {}
    /\ pc = "main"
    /\ last_search_game = NoGame
    /\ t_args = NoTarget
    /\ t_results = <<>>
    /\ g_args = NoTarget
    /\ g_sections = <<>>
    /\ sess_target = [d \in GameTypes |-> {}]
    /\ history_file = NoHistoryFile
    /\ playlist_history = load_history(history_file)
    /\ account = FirstAccount
    /\ playlists = <<>>

\* YouTubeTools.__init__ on a machine without model files.
Init ==
    /\ store = [d \in GameTypes |-> Absent]
    /\ models = [d \in GameTypes |-> load_model(store[d])]
    /\ InitRest

\* model.add_exclusion(phrase, persistent). With persistent=True the method
\* goes on to self._save_model(self.game_type); SearchModel defines no
\* _save_model (it is a method of YouTubeTools), so the attribute lookup
\* raises AttributeError after the set was changed and nothing is written.
AddExclusion(d, phrase, persistent, storage) ==
    /\ UNCHANGED notStoreVars
    /\ models' = [models EXCEPT ![d] = add_exclusion(@, phrase, persistent)]
    /\ UNCHANGED store
    /\ ret' = IF persistent THEN Raised("add_exclusion_persistent", d, storage,
                                        phrase, models[d])
                            ELSE Returned("add_exclusion_session", d, storage,
                                          phrase, models[d])

\* model.remove_exclusion(phrase, persistent): the same missing method.
RemoveExclusion(d, phrase, persistent, storage) ==
    /\ UNCHANGED notStoreVars
    /\ models' = [models EXCEPT ![d] = remove_exclusion(@, phrase, persistent)]
    /\ UNCHANGED store
    /\ ret' = IF persistent THEN Raised("remove_exclusion_persistent", d, storage,
                                        phrase, models[d])
                            ELSE Returned("remove_exclusion_session", d, storage,
                                          phrase, models[d])

\* model.add_trusted_channel(channel): no save, despite the docstring.
AddTrustedChannel(d, channel, storage) ==
    /\ UNCHANGED notStoreVars
    /\ models' = [models EXCEPT ![d] = add_trusted_channel(@, channel)]
    /\ UNCHANGED store
    /\ ret' = Returned("add_trusted_channel", d, storage, channel, models[d])

\* model.add_noise_channel(channel): no save, despite the docstring.
AddNoiseChannel(d, channel, storage) ==
    /\ UNCHANGED notStoreVars
    /\ models' = [models EXCEPT ![d] = add_noise_channel(@, channel)]
    /\ UNCHANGED store
    /\ ret' = Returned("add_noise_channel", d, storage, channel, models[d])

\* model.clear_session_exclusions().
ClearSessionExclusions(d) ==
    /\ UNCHANGED notStoreVars
    /\ models' = [models EXCEPT ![d] = clear_session_exclusions(@)]
    /\ UNCHANGED store
    /\ ret' = Returned("clear_session_exclusions", d, "unused", "", models[d])

\* YouTubeTools._save_model(game_type), the training loop's commit.
SaveModel(d, storage) ==
    /\ UNCHANGED notStoreVars
    /\ store' = [store EXCEPT ![d] = save_model(@, models[d], storage)]
    /\ UNCHANGED models
    /\ ret' = Returned("_save_model", d, storage, "", models[d])

\* The process ends and a new one starts: YouTubeTools.__init__ loads both
\* models from their files.
Restart ==
    /\ UNCHANGED <<fetchVars, searchVars, history_file, accountVars>>
    /\ fpc = "idle" /\ sv_pc = "idle" /\ pc \in {"main", "crashed"}
    /\ playlist_history' = load_history(history_file)
    /\ session_quota_used' = 0
    /\ pc' = "main"
    /\ last_search_game' = NoGame
    /\ t_args' = NoTarget
    /\ t_results' = <<>>
    /\ g_args' = NoTarget
    /\ g_sections' = <<>>
    /\ sess_target' = [d \in GameTypes |-> {}]
    /\ models' = [d \in GameTypes |-> load_model(store[d])]
    /\ UNCHANGED store
    /\ ret' = Started

\* Channels and storage conditions the store's operations are exercised with.
StoreChannels == {"c1"}

StoreNext ==
    \/ \E d \in GameTypes, p \in Phrases : AddExclusion(d, p, FALSE, "unused")
    \/ \E d \in GameTypes, p \in Phrases, s \in {"ok", "open_fails"} :
           AddExclusion(d, p, TRUE, s)
    \/ \E d \in GameTypes, p \in Phrases : RemoveExclusion(d, p, FALSE, "unused")
    \/ \E d \in GameTypes, p \in Phrases, s \in {"ok", "open_fails"} :
           RemoveExclusion(d, p, TRUE, s)
    \/ \E d \in GameTypes, c \in StoreChannels : AddTrustedChannel(d, c, "unused")
    \/ \E d \in GameTypes, c \in StoreChannels : AddNoiseChannel(d, c, "unused")
    \/ \E d \in GameTypes : ClearSessionExclusions(d)
    \/ \E d \in GameTypes, s \in StorageOutcomes : SaveModel(d, s)
    \/ Restart

SpecStore == Init /\ [][StoreNext]_vars

\* A phrase the operator only ever gives as a session exclusion, and one
\* only ever given as a persistent exclusion.
SessionOnlyPhrases == {"s"}

PersistentOnlyPhrases == {"x"}

SessionNext ==
    \/ \E d \in GameTypes, p \in SessionOnlyPhrases :
           AddExclusion(d, p, FALSE, "unused")
    \/ \E d \in GameTypes, p \in PersistentOnlyPhrases :
           AddExclusion(d, p, TRUE, "ok")
    \/ \E d \in GameTypes, p \in SessionOnlyPhrases :
           RemoveExclusion(d, p, FALSE, "unused")
    \/ \E d \in GameTypes : ClearSessionExclusions(d)
    \/ \E d \in GameTypes, s \in StorageOutcomes : SaveModel(d, s)
    \/ Restart

\* The store with exclusions of the two tiers kept apart by their phrases.
SpecSession == Init /\ [][SessionNext]_vars

\* The channels the two classifications are exercised with.
ClassifiedChannels == {"c1", "c2"}

ChannelNext ==
    \/ \E d \in GameTypes, c \in ClassifiedChannels :
           AddTrustedChannel(d, c, "unused")
    \/ \E d \in GameTypes, c \in ClassifiedChannels :
           AddNoiseChannel(d, c, "unused")

\* Every sequence of add_trusted_channel and add_noise_channel calls on the
\* two models.
SpecChannels == Init /\ [][ChannelNext]_vars

----------------------------------------------------------------------------
(* Claims on the learned model store *)

\* C1: in every reachable state (default construction, a model loaded from
\* its file, any sequence of add_trusted_channel / add_noise_channel calls)
\* the trusted and the noise channels of each game type's model are disjoint.
C1_TrustedNoiseDisjoint ==
    \A d \in GameTypes :
        models[d].trusted_channels \cap models[d].noise_channels = {}

\* A channel that was saved as trusted has just been marked as noise.
C1_Witness ==
    /\ ret.op = "add_noise_channel"
    /\ store[ret.game_type].state = "saved"
    /\ \E c \in StoreChannels :
           /\ c \in store[ret.game_type].data.trusted_channels
           /\ c \in models[ret.game_type].noise_channels

PersistentMutators ==
    {"add_exclusion_persistent", "remove_exclusion_persistent",
     "add_trusted_channel", "add_noise_channel"}

\* C5: right after a mutation of a persistent field (persistent exclusion
\* added or removed, channel marked trusted or noise) the model file of that
\* game type holds the in-memory persistent exclusions, trusted channels and
\* noise channels. Stated for calls during which the storage works.
C5_PersistedImmediately ==
    (ret.op \in PersistentMutators /\ ret.storage \in {"ok", "unused"})
        => store[ret.game_type] = Saved(to_dict(models[ret.game_type]))

\* C6: when the storage cannot be written, add_exclusion and
\* remove_exclusion with persistent=True and the commit (_save_model) still
\* return normally to their caller.
C6_WriteFailureAbsorbed ==
    (/\ ret.op \in {"add_exclusion_persistent", "remove_exclusion_persistent",
                    "_save_model"}
     /\ ret.storage # "ok")
        => ret.kind = "return"

\* C15: the persisted model of a game type never holds a session exclusion:
\* the file has no field for them, a phrase only ever added with
\* persistent=False is not among its persistent exclusions, also after a
\* commit, and the models of a new process start without session exclusions.
C15_SessionNeverPersisted ==
    /\ \A d \in GameTypes :
           store[d].state = "saved" =>
               /\ "session_exclusions" \notin DOMAIN store[d].data
               /\ store[d].data.persistent_exclusions \cap SessionOnlyPhrases = {}
    /\ ret.op = "__init__" =>
           \A d \in GameTypes : models[d].session_exclusions = {}

\* A model with a session exclusion and a persistent one has just been
\* committed.
C15_Witness ==
    /\ ret.op = "_save_model"
    /\ ret.storage = "ok"
    /\ models[ret.game_type].session_exclusions # {}
    /\ store[ret.game_type].state = "saved"
    /\ store[ret.game_type].data.persistent_exclusions # {}

\* The call `second` on channel c comes right after the call `first` on the
\* same channel of the same model.
ChannelCalls(first, second) ==
    /\ ret.op = first
    /\ ret'.op = second
    /\ ret'.game_type = ret.game_type
    /\ ret'.arg = ret.arg

\* After the two calls the channel is in the set `into` and not in the set
\* `outof`, and every other channel is where it was before the first call.
ChannelMoved(into, outof) ==
    LET m == models'[ret.game_type]
        c == ret.arg
    IN /\ c \in m[into]
       /\ c \notin m[outof]
       /\ \A o \in ClassifiedChannels \ {c} :
              /\ o \in m[into] <=> o \in ret.before[into]
              /\ o \in m[outof] <=> o \in ret.before[outof]

\* C14: after add_trusted_channel(c) then add_noise_channel(c), c is a noise
\* channel and not a trusted one; after add_noise_channel(c) then
\* add_trusted_channel(c), c is trusted and not noise; every other channel
\* stays where it was.
C14_LastClassificationWins ==
    [][/\ ChannelCalls("add_trusted_channel", "add_noise_channel")
           => ChannelMoved("noise_channels", "trusted_channels")
       /\ ChannelCalls("add_noise_channel", "add_trusted_channel")
           => ChannelMoved("trusted_channels", "noise_channels")]_vars

\* add_noise_channel(c) has just followed add_trusted_channel(c) on a model
\* in which c was a noise channel and the other channel a trusted one.
C14_Witness ==
    /\ ret.op = "add_noise_channel"
    /\ ret.arg \in ret.before.trusted_channels
    /\ ret.arg \in models[ret.game_type].noise_channels
    /\ \E o \in ClassifiedChannels \ {ret.arg} :
           o \in models[ret.game_type].trusted_channels

\* A call of remove_exclusion(x, persistent=True) that comes right after
\* add_exclusion(x, persistent=True) on the same model.
RemoveAfterAdd ==
    /\ ret.op = "add_exclusion_persistent"
    /\ ret'.op = "remove_exclusion_persistent"
    /\ ret'.game_type = ret.game_type
    /\ ret'.arg = ret.arg

\* C13: add_exclusion(x, persistent=True) followed by
\* remove_exclusion(x, persistent=True) completes and leaves
\* get_all_exclusions() as it was before the add, for every model state and
\* every phrase.
C13_AddRemoveRoundTrip ==
    [][RemoveAfterAdd =>
          /\ ret.kind = "return"
          /\ ret'.kind = "return"
          /\ get_all_exclusions(models'[ret.game_type])
                = get_all_exclusions(ret.before)]_vars

----------------------------------------------------------------------------
(* Paginated fetches: get_playlist_items and get_my_playlists *)

\* The provider's page size stands for maxResults=50; the provider serves at
\* most MaxPages pages per fetch.
MaxPageItems == 2

MaxPages == 3

\* Playlist items (snippet.resourceId.videoId, snippet.videoOwnerChannelId).
PlaylistItems ==
    {[videoId |-> "v1", videoOwnerChannelId |-> "c1"],
     [videoId |-> "v2", videoOwnerChannelId |-> "c2"]}

\* The user's playlists as the provider lists them (id, snippet.publishedAt).
MyPlaylists ==
    {[id |-> "p1", created_at |-> 1], [id |-> "p2", created_at |-> 2]}

\* All pages of at most MaxPageItems entries over a set of entries.
PagesOver(S) ==
    UNION {[1..n -> S] : n \in 0..MaxPageItems}

\* A fetch that ignores its channel filter.
FilterByChannel_ignored(page, cid) == page

\* The list comprehension of lines 284-288: the page unchanged without a
\* channel filter, else its items owned by that channel, in page order.
FilterByChannel(page, cid) ==
    IF cid = "" THEN page
    ELSE SelectSeq(page, LAMBDA it : it.videoOwnerChannelId = cid)

\* The cursors the provider hands out.
Cursors == {"t1", "t2"}

\* A loop that never takes the cursor of the response.
next_token_kept(previous, cursor) == previous

\* next_page_token = response.get('nextPageToken').
next_token(previous, cursor) == cursor

\* A fetch that keeps only the page it has just received.
extend_overwrites(acc, page) == page

\* items.extend(playlist_items), and the append loop of lines 370-376.
extend(acc, page) == acc \o page

\* list.sort(key=created_at, reverse=True): stable, newest first.
RECURSIVE InsertByCreated(_, _)
InsertByCreated(sorted, p) ==
    IF sorted = <<>> THEN <<p>>
    ELSE IF Head(sorted).created_at >= p.created_at
         THEN <<Head(sorted)>> \o InsertByCreated(Tail(sorted), p)
         ELSE <<p>> \o sorted

RECURSIVE SortNewestFirst(_)
SortNewestFirst(ps) ==
    IF ps = <<>> THEN <<>>
    ELSE InsertByCreated(SortNewestFirst(SubSeq(ps, 1, Len(ps) - 1)), ps[Len(ps)])

FetchRunning(op) ==
    [op |-> op, kind |-> "running", value |-> <<>>]

FetchReturned(op, value) ==
    [op |-> op, kind |-> "return", value |-> value]

FetchReturnedNone(op) ==
    [op |-> op, kind |-> "return_none", value |-> <<>>]

FetchRaised(op) ==
    [op |-> op, kind |-> "raise", value |-> <<>>]

\* get_playlist_items(playlist_id, channel_id) up to the first request.
GetPlaylistItemsStart(cid) ==
    /\ UNCHANGED notFetchVars
    /\ fpc = "idle"
    /\ fpc' = "items"
    /\ items' = <<>>
    /\ next_page_token' = NoCursor
    /\ sent' = <<>>
    /\ received' = <<>>
    /\ channel_id' = cid
    /\ served' = <<>>
    /\ page_failed' = FALSE
    /\ ret' = FetchRunning("get_playlist_items")

\* get_my_playlists() up to the first request.
GetMyPlaylistsStart ==
    /\ UNCHANGED notFetchVars
    /\ fpc = "idle"
    /\ fpc' = "mine"
    /\ items' = <<>>
    /\ next_page_token' = NoCursor
    /\ sent' = <<>>
    /\ received' = <<>>
    /\ channel_id' = ""
    /\ served' = <<>>
    /\ page_failed' = FALSE
    /\ ret' = FetchRunning("get_my_playlists")

\* One pass of get_playlist_items' loop: the request with
\* pageToken=next_page_token succeeds with `page` and `cursor`;
\* `if not next_page_token: break` and the method returns items.
PlaylistItemsPage(page, cursor) ==
    /\ UNCHANGED notFetchVars
    /\ fpc = "items"
    /\ cursor # NoCursor => Len(sent) + 1 < MaxPages
    /\ sent' = Append(sent, next_page_token)
    /\ received' = Append(received, cursor)
    /\ items' = extend(items, FilterByChannel(page, channel_id))
    /\ served' = served \o page
    /\ next_page_token' = next_token(next_page_token, cursor)
    /\ fpc' = IF next_page_token' = NoCursor THEN "idle" ELSE "items"
    /\ ret' = IF next_page_token' = NoCursor
              THEN FetchReturned("get_playlist_items", items') ELSE ret
    /\ UNCHANGED <<channel_id, page_failed>>

\* request.execute() raises in get_playlist_items: nothing catches it.
PlaylistItemsPageFails ==
    /\ UNCHANGED notFetchVars
    /\ fpc = "items"
    /\ fpc' = "idle"
    /\ page_failed' = TRUE
    /\ ret' = FetchRaised("get_playlist_items")
    /\ sent' = Append(sent, next_page_token)
    /\ UNCHANGED <<items, next_page_token, received, channel_id, served>>

\* One pass of get_my_playlists' loop; after the last page the list is
\* sorted newest first and returned.
MyPlaylistsPage(page, cursor) ==
    /\ UNCHANGED notFetchVars
    /\ fpc = "mine"
    /\ cursor # NoCursor => Len(sent) + 1 < MaxPages
    /\ sent' = Append(sent, next_page_token)
    /\ received' = Append(received, cursor)
    /\ items' = extend(items, page)
    /\ served' = served \o page
    /\ next_page_token' = next_token(next_page_token, cursor)
    /\ fpc' = IF next_page_token' = NoCursor THEN "idle" ELSE "mine"
    /\ ret' = IF next_page_token' = NoCursor
              THEN FetchReturned("get_my_playlists", SortNewestFirst(items'))
              ELSE ret
    /\ UNCHANGED <<channel_id, page_failed>>

\* request.execute() raises in get_my_playlists: the except clause prints the
\* error and returns None.
MyPlaylistsPageFails ==
    /\ UNCHANGED notFetchVars
    /\ fpc = "mine"
    /\ fpc' = "idle"
    /\ page_failed' = TRUE
    /\ ret' = FetchReturnedNone("get_my_playlists")
    /\ sent' = Append(sent, next_page_token)
    /\ UNCHANGED <<items, next_page_token, received, channel_id, served>>

FetchNext ==
    \/ \E cid \in {"", "c1", "c2"} : GetPlaylistItemsStart(cid)
    \/ GetMyPlaylistsStart
    \/ \E page \in PagesOver(PlaylistItems), cursor \in Cursors \cup {NoCursor} :
           PlaylistItemsPage(page, cursor)
    \/ PlaylistItemsPageFails
    \/ \E page \in PagesOver(MyPlaylists), cursor \in Cursors \cup {NoCursor} :
           MyPlaylistsPage(page, cursor)
    \/ MyPlaylistsPageFails

SpecFetch == Init /\ [][FetchNext]_vars

\* A request in flight comes back: with a page, or with an exception.
FetchPass ==
    \/ \E page \in PagesOver(PlaylistItems), cursor \in Cursors \cup {NoCursor} :
           PlaylistItemsPage(page, cursor)
    \/ PlaylistItemsPageFails
    \/ \E page \in PagesOver(MyPlaylists), cursor \in Cursors \cup {NoCursor} :
           MyPlaylistsPage(page, cursor)
    \/ MyPlaylistsPageFails

\* The fetches with a provider that answers every request, and that sends a
\* response without cursor after MaxPages pages at the latest.
SpecFetchLive == Init /\ [][FetchNext]_vars /\ WF_vars(FetchPass)

----------------------------------------------------------------------------
(* Claims on the paginated fetches *)

FetchOps == {"get_playlist_items", "get_my_playlists"}

\* C9: a fetch of playlist items without channel filter returns exactly the
\* items the provider returned, each once, in page order and in the order
\* within each page.
C9_AllItemsInProviderOrder ==
    (/\ fpc = "idle"
     /\ ret.op = "get_playlist_items"
     /\ ret.kind = "return"
     /\ channel_id = "")
        => ret.value = served

\* An unfiltered fetch over three pages has returned.
C9_Witness ==
    /\ fpc = "idle"
    /\ ret.op = "get_playlist_items"
    /\ ret.kind = "return"
    /\ channel_id = ""
    /\ Len(served) > 2 * MaxPageItems
    /\ served[1] # served[Len(served)]

\* The requests of the fetch so far form a chain: the first without cursor,
\* each later one with the cursor of the response before it; the fetch goes
\* on after a response with a cursor and has returned after one without.
CursorChain ==
    /\ sent # <<>> => sent[1] = NoCursor
    /\ \A k \in 2..Len(sent) : sent[k] = received[k - 1]
    /\ \A k \in 1..(Len(received) - 1) : received[k] # NoCursor
    /\ fpc # "idle" =>
           /\ Len(sent) = Len(received)
           /\ \A k \in 1..Len(received) : received[k] # NoCursor
    /\ (fpc = "idle" /\ ret.op \in FetchOps /\ ret.kind = "return") =>
           /\ Len(sent) = Len(received)
           /\ received # <<>>
           /\ received[Len(received)] = NoCursor

\* C11: a paginated fetch sends one request at a time, the first without
\* cursor and each later one with the cursor of the response before it, and
\* stops exactly when a response has no cursor; with a provider that
\* eventually sends such a response, the fetch ends.
C11_CursorChainEnds ==
    /\ []CursorChain
    /\ (fpc # "idle") ~> (fpc = "idle")

\* A fetch has returned after MaxPages requests that carried two different
\* cursors.
C11_Witness ==
    /\ fpc = "idle"
    /\ ret.op \in FetchOps
    /\ ret.kind = "return"
    /\ Len(sent) = MaxPages
    /\ sent[2] # sent[3]

\* C12: a fetch of playlist items with a channel filter returns exactly the
\* fetched items owned by that channel, in the relative order in which the
\* provider returned them, across all pages.
C12_FilteredInProviderOrder ==
    (/\ fpc = "idle"
     /\ ret.op = "get_playlist_items"
     /\ ret.kind = "return"
     /\ channel_id # "")
        => ret.value = SelectSeq(served,
                                 LAMBDA it : it.videoOwnerChannelId = channel_id)

\* A filtered fetch over several pages has returned: it kept items of two
\* pages and dropped an item between them.
C12_Witness ==
    /\ fpc = "idle"
    /\ ret.op = "get_playlist_items"
    /\ ret.kind = "return"
    /\ channel_id # ""
    /\ Len(sent) >= 2
    /\ Len(served) > MaxPageItems
    /\ served[1].videoOwnerChannelId = channel_id
    /\ served[2].videoOwnerChannelId # channel_id
    /\ served[Len(served)].videoOwnerChannelId = channel_id
    /\ Len(ret.value) >= 2

\* C10: when a page request fails during get_playlist_items or
\* get_my_playlists, the fetch surfaces an error to its caller and returns
\* none of the items accumulated from earlier pages.
C10_PageFailureSurfaces ==
    (fpc = "idle" /\ ret.op \in FetchOps /\ page_failed /\ served # <<>>)
        => (ret.kind = "raise" /\ ret.value = <<>>)

----------------------------------------------------------------------------
(* The quota ledger: _track_quota *)

DAILY_QUOTA == 10000

ConfirmThreshold == 100

BaseSearchCost == 100

\* The model stops charging when the session's points would pass MaxQuota.
MaxQuota == 400

\* What the operator may answer to "Continue? (y/n): ", lower-cased.
Answers == {"y", "n", ""}

Min(a, b) == IF a <= b THEN a ELSE b

\* _track_quota: the points are added first; a charge above the threshold
\* then prompts, and any answer but "y" raises QuotaConfirmationError.
track_quota(used, points, answer) ==
    [used |-> used + points,
     raised |-> points > ConfirmThreshold /\ answer # "y"]

\* self._track_quota(points) called directly.
TrackQuota(points, answer) ==
    /\ UNCHANGED notQuotaVars
    /\ session_quota_used + points <= MaxQuota
    /\ LET q == track_quota(session_quota_used, points, answer) IN
       /\ session_quota_used' = q.used
       /\ ret' = [op |-> "_track_quota",
                  kind |-> IF q.raised THEN "raise" ELSE "return",
                  points |-> points, answer |-> answer,
                  quota_before |-> session_quota_used]

----------------------------------------------------------------------------
(* Search results and their score *)

\* str.lower() on the words of titles and game names.
LowerWord(w) ==
    CASE w = "Catan" -> "catan"
      [] w = "Review" -> "review"
      [] OTHER -> Lower(w)

\* Whether the lower-cased word w contains the lower-cased text k.
WordContains(w, k) ==
    \/ LowerWord(w) = k
    \/ <<LowerWord(w), k>> \in {<<"reviews", "review">>, <<"reviewed", "review">>}

\* re.search(rf'\b{name}\b', title, re.IGNORECASE): the words of the name
\* appear in the title as whole words, whatever their letter case.
TitleMatch(title, name) ==
    /\ name # <<>>
    /\ \E i \in 1..(Len(title) - Len(name) + 1) :
          \A j \in 1..Len(name) : LowerWord(title[i + j - 1]) = LowerWord(name[j])

\* `text in title.lower()` for a text of one or more words: a substring
\* test, so the last word of the text may be the beginning of a longer one.
TitleHas(title, text) ==
    \E i \in 1..(Len(title) - Len(text) + 1) :
        \A j \in 1..Len(text) :
            IF j = Len(text) THEN WordContains(title[i + j - 1], text[j])
            ELSE LowerWord(title[i + j - 1]) = text[j]

\* The day datetime.now() falls on.
Today == 1000

\* _format_duration followed by re.findall(r'(\d+)[hm]', ...): the numbers
\* of the hour and minute parts that are not zero, in that order.
HourMinuteNumbers(duration) ==
    (IF duration.h > 0 THEN <<duration.h>> ELSE <<>>)
        \o (IF duration.m > 0 THEN <<duration.m>> ELSE <<>>)

\* sum(x * int(t) for x, t in zip([60, 1], numbers)).
ParsedMinutes(duration) ==
    LET n == HourMinuteNumbers(duration) IN
    IF Len(n) = 0 THEN 0
    ELSE IF Len(n) = 1 THEN 60 * n[1]
    ELSE 60 * n[1] + n[2]

\* The duration bonus of score_video (lines 1243-1261).
DurationPoints(video) ==
    IF ~video.details THEN 0
    ELSE LET minutes == ParsedMinutes(video.duration) IN
         IF minutes = 0 THEN 0
         ELSE IF TitleHas(video.title, <<"how", "to", "play">>)
              THEN (IF 5 <= minutes /\ minutes <= 20 THEN 10 ELSE 0)
         ELSE IF TitleHas(video.title, <<"review">>)
              THEN (IF 10 <= minutes /\ minutes <= 30 THEN 10 ELSE 0)
         ELSE IF TitleHas(video.title, <<"playthrough">>)
                 \/ TitleHas(video.title, <<"gameplay">>)
              THEN (IF minutes >= 30 THEN 10 ELSE 0)
         ELSE 0

\* The recency bonus (lines 1269-1276). A timestamp with a UTC offset makes
\* datetime.now() - upload_date raise TypeError, an unparseable one makes
\* fromisoformat raise ValueError; both are caught and add nothing.
RecencyPoints(video, now) ==
    IF video.upload_date.kind # "naive" THEN 0
    ELSE LET age_days == now - video.upload_date.day IN
         IF age_days < 365 THEN Min(10, (365 - age_days) \div 36) ELSE 0

\* score_video(video, game_type, game_name) at the time `now`.
score_video(video, game_type, game_name, now) ==
    LET views == IF video.details THEN video.view_count ELSE 0 IN
      (IF TitleMatch(video.title, game_name) THEN 20 ELSE 0)
    + (IF views > 1000 THEN Min(10, views \div 1000) ELSE 0)
    + (IF views > 0 /\ video.details
       THEN Min(15, (video.like_count * 100) \div views) ELSE 0)
    + DurationPoints(video)
    + (IF TitleHas(video.description, <<game_type, "game">>) THEN 15 ELSE 0)
    + RecencyPoints(video, now)

\* What the provider can return to a search: three results, two of them the
\* same video "abc" seen with different statistics.
Video(id, title, channel, views, likes) ==
    [id |-> id, type |-> "video", title |-> title, channel_title |-> channel,
     upload_date |-> [kind |-> "utc", day |-> 900], details |-> TRUE,
     duration |-> [h |-> 0, m |-> 15, s |-> 0],
     view_count |-> views, like_count |-> likes, description |-> <<>>]

Catalog ==
    {Video("abc", <<"Catan", "how", "to", "play">>, "c1", 5000, 100),
     Video("abc", <<"Catan", "how", "to", "play">>, "c1", 500, 0),
     Video("xyz", <<"Azul", "Review">>, "c2", 20000, 3000)}

\* The provider returns at most MaxResults results to one query.
MaxResults == 2

DistinctIds(r) ==
    \A i, j \in 1..Len(r) : i # j => r[i].id # r[j].id

\* The result lists of at most n entries, no video twice in one list.
ResultLists(n) ==
    {r \in UNION {[1..k -> Catalog] : k \in 0..Min(n, MaxResults)} : DistinctIds(r)}

\* The provider's answer to a search and its detail calls: an exception in
\* one of them, or the detailed results.
ProviderResponses(n) ==
    {[ok |-> FALSE, results |-> <<>>]}
        \cup {[ok |-> TRUE, results |-> r] : r \in ResultLists(n)}

Take(seq, n) == SubSeq(seq, 1, Min(n, Len(seq)))

----------------------------------------------------------------------------
(* advanced_search *)

estimated_cost(max_results, light_mode) ==
    BaseSearchCost + (IF light_mode THEN 0 ELSE max_results)

\* advanced_search as a function of the ledger, the arguments, the
\* operator's answer and the provider's response. The except clause turns
\* QuotaConfirmationError and every provider exception into a printed line
\* and the return value None.
advanced_search(used, max_results, light_mode, answer, response) ==
    LET q == track_quota(used, estimated_cost(max_results, light_mode), answer) IN
    [used |-> q.used,
     kind |-> IF q.raised \/ ~response.ok THEN "return_none" ELSE "return",
     value |-> IF q.raised \/ ~response.ok THEN <<>>
               ELSE Take(response.results, max_results),
     cause |-> IF q.raised THEN "quota"
               ELSE IF ~response.ok THEN "provider" ELSE "none"]

\* The detail calls of a search that completes: videos().list or
\* playlists().list once for every item, until max_results results are
\* collected.
detail_calls(found, max_results) == Len(Take(found, max_results))

\* yt.advanced_search(query, max_results=..., light_mode=...) called directly.
AdvancedSearch(max_results, light_mode, answer, response) ==
    /\ UNCHANGED notQuotaVars
    /\ session_quota_used + estimated_cost(max_results, light_mode) <= MaxQuota
    /\ LET r == advanced_search(session_quota_used, max_results, light_mode,
                                answer, response) IN
       /\ session_quota_used' = r.used
       /\ ret' = [op |-> "advanced_search", kind |-> r.kind, value |-> r.value,
                  cause |-> r.cause, light_mode |-> light_mode,
                  quota_before |-> session_quota_used,
                  detail_calls |-> IF r.kind = "return"
                                   THEN detail_calls(response.results, max_results)
                                   ELSE 0]

QuotaNext ==
    \/ \E points \in {100, 101, 150}, answer \in Answers :
           TrackQuota(points, answer)
    \/ \E max_results \in {5, 50}, light_mode \in BOOLEAN, answer \in Answers :
           \E response \in ProviderResponses(max_results) :
               AdvancedSearch(max_results, light_mode, answer, response)

SpecQuota == Init /\ [][QuotaNext]_vars

----------------------------------------------------------------------------
(* Claims on the quota ledger and on advanced_search *)

\* C2: a charge of more than 100 points prompts the operator before it is
\* committed; on any answer but yes the operation fails with the
\* quota-declined error and the used points are what they were before.
C2_DeclinedChargeNotCommitted ==
    (/\ ret.op = "_track_quota"
     /\ ret.points > ConfirmThreshold
     /\ ret.answer # "y")
        => (ret.kind = "raise" /\ session_quota_used = ret.quota_before)

\* C7: a provider failure or a declined quota confirmation during a search
\* reaches the caller of the search as an error, not as a return value.
C7_SearchFailureSurfaces ==
    (ret.op = "advanced_search" /\ ret.cause # "none") => ret.kind = "raise"

\* C35: after a search that completes, in light mode or in full mode, the
\* points charged for it are 100 for the search call and 1 for every detail
\* call issued during it.
C35_ChargeCountsDetailCalls ==
    (ret.op = "advanced_search" /\ ret.kind = "return")
        => session_quota_used - ret.quota_before
               = BaseSearchCost + ret.detail_calls

----------------------------------------------------------------------------
(* search_videos *)

GameNames == {<<"catan">>}

Categories == {"how_to_play", "reviews", "playthroughs"}

\* YouTubeTools.SEARCH_PATTERNS.
SEARCH_PATTERNS ==
    [board |->
        [how_to_play |-> <<"\"{game_name}\" \"how to play\"",
                           "\"{game_name}\" rules explanation",
                           "\"{game_name}\" tutorial board game",
                           "\"{game_name}\" learn to play">>,
         reviews |-> <<"\"{game_name}\" review board game",
                       "\"{game_name}\" review card game",
                       "\"{game_name}\" board game overview",
                       "\"{game_name}\" first impressions">>,
         playthroughs |-> <<"\"{game_name}\" playthrough board game",
                            "\"{game_name}\" gameplay board game",
                            "\"{game_name}\" full game",
                            "\"{game_name}\" actual play">>],
     video |->
        [how_to_play |-> <<"\"{game_name}\" beginners guide",
                           "\"{game_name}\" tutorial",
                           "\"{game_name}\" getting started",
                           "\"{game_name}\" basics">>,
         reviews |-> <<"\"{game_name}\" review",
                       "\"{game_name}\" worth playing",
                       "\"{game_name}\" should you play",
                       "\"{game_name}\" before you buy">>,
         playthroughs |-> <<"\"{game_name}\" full gameplay",
                            "\"{game_name}\" walkthrough no commentary",
                            "\"{game_name}\" longplay",
                            "\"{game_name}\" complete game">>]]

\* max_results of the advanced_search call in search_videos.
PatternMaxResults == 15

\* The slice [:10] of the final results.
TopResults == 10

FilterNoise_kept(results, m) == results

\* [r for r in results if r['channel_title'] not in model.noise_channels].
FilterNoise(results, m) ==
    SelectSeq(results, LAMBDA r : r.channel_title \notin m.noise_channels)

\* [(video, self.score_video(video, game_type, game_name)) for video in ...].
ScoreAll(results, game_type, game_name, now) ==
    [i \in 1..Len(results) |->
        [video |-> results[i],
         score |-> score_video(results[i], game_type, game_name, now)]]

\* The position of the last pair of `pairs` with the video id `id`.
LastWithId(pairs, id) ==
    CHOOSE i \in 1..Len(pairs) :
        /\ pairs[i].video.id = id
        /\ \A j \in (i + 1)..Len(pairs) : pairs[j].video.id # id

\* {v[0]['id']: v for v in all_results}.values(): one pair per id, at the
\* place of the id's first occurrence, holding the id's last occurrence.
RECURSIVE FirstOccurrences(_, _)
FirstOccurrences(pairs, seen) ==
    IF pairs = <<>> THEN <<>>
    ELSE IF Head(pairs).video.id \in seen
         THEN FirstOccurrences(Tail(pairs), seen)
         ELSE <<Head(pairs).video.id>>
                  \o FirstOccurrences(Tail(pairs), seen \cup {Head(pairs).video.id})

unique_results(pairs) ==
    LET ids == FirstOccurrences(pairs, {}) IN
    [k \in 1..Len(ids) |-> pairs[LastWithId(pairs, ids[k])]]

\* sorted(..., key=lambda x: x[1], reverse=True): stable, highest first.
RECURSIVE InsertByScore(_, _)
InsertByScore(sorted, p) ==
    IF sorted = <<>> THEN <<p>>
    ELSE IF Head(sorted).score >= p.score
         THEN <<Head(sorted)>> \o InsertByScore(Tail(sorted), p)
         ELSE <<p>> \o sorted

RECURSIVE SortByScore(_)
SortByScore(pairs) ==
    IF pairs = <<>> THEN <<>>
    ELSE InsertByScore(SortByScore(SubSeq(pairs, 1, Len(pairs) - 1)),
                       pairs[Len(pairs)])

final_results_uncut(pairs) == SortByScore(unique_results(pairs))

\* Lines 1215-1222 of search_videos.
final_results(pairs) == Take(SortByScore(unique_results(pairs)), TopResults)

Patterns(args) == SEARCH_PATTERNS[args.game_type][args.category]

formatted_query_without_channels(template, game_name, exclusions, trusted) ==
    [base |-> <<template, game_name>>,
     exclusion_terms |-> {<<"-", phrase>> : phrase \in exclusions},
     channel_query |-> {}]

\* ' '.join(search_parts): the template with the game name put in, one
\* -"phrase" term for each exclusion and the group of channel:"name" terms
\* of the trusted channels. The sets are iterated in no particular order, so
\* the terms are kept as sets.
formatted_query(template, game_name, exclusions, trusted) ==
    [base |-> <<template, game_name>>,
     exclusion_terms |-> {<<"-", phrase>> : phrase \in exclusions},
     channel_query |-> {<<"channel:", channel>> : channel \in trusted}]

\* search_videos(game_name, game_type, category) up to its first query:
\* the exclusions are read, all_results is empty.
search_videos_begin(game_name, game_type, category) ==
    /\ sv_pc = "idle"
    /\ sv_pc' = "searching"
    /\ sv_args' = [game_name |-> game_name, game_type |-> game_type,
                   category |-> category]
    /\ sv_index' = 0
    /\ all_results' = <<>>
    /\ sv_failed' = {}
    /\ ret' = [op |-> "search_videos", kind |-> "running", value |-> <<>>,
               failed |-> {},
               model_exclusions |-> get_all_exclusions(models[game_type]),
               queries |-> <<>>]

\* One pass of the loop over the query templates: the query is put together
\* and kept in `queries` as it is handed to advanced_search, then the call,
\* `if not results: continue`, the noise filter, the scoring and
\* all_results.extend; after the last template the method removes the
\* duplicates, sorts, cuts to ten and returns.
search_videos_pass(response) ==
    /\ sv_pc = "searching"
    /\ UNCHANGED sv_args
    /\ LET i == sv_index + 1
           m == models[sv_args.game_type]
           r == advanced_search(session_quota_used, PatternMaxResults, TRUE, "",
                                response)
           scored == ScoreAll(FilterNoise(r.value, m), sv_args.game_type,
                              sv_args.game_name, Today)
           queries == Append(ret.queries,
                             formatted_query(Patterns(sv_args)[i],
                                             sv_args.game_name,
                                             ret.model_exclusions,
                                             m.trusted_channels))
       IN
       /\ session_quota_used' = r.used
       /\ sv_index' = i
       /\ sv_failed' = IF r.kind = "return" THEN sv_failed ELSE sv_failed \cup {i}
       /\ all_results' = IF r.kind = "return" /\ r.value # <<>>
                         THEN all_results \o scored ELSE all_results
       /\ IF i = Len(Patterns(sv_args))
          THEN /\ sv_pc' = "idle"
               /\ ret' = [op |-> "search_videos", kind |-> "return",
                          value |-> final_results(all_results'),
                          failed |-> sv_failed',
                          model_exclusions |-> ret.model_exclusions,
                          queries |-> queries]
          ELSE /\ sv_pc' = "searching"
               /\ ret' = [ret EXCEPT !.queries = queries]

SearchVideosStart_clearing(game_name, game_type, category) ==
    /\ UNCHANGED <<notSearchVars, session_quota_used>>
    /\ models' = [models EXCEPT ![game_type] = clear_session_exclusions(@)]
    /\ session_quota_used
         + Len(SEARCH_PATTERNS[game_type][category]) * BaseSearchCost <= MaxQuota
    /\ search_videos_begin(game_name, game_type, category)

\* yt.search_videos(game_name, game_type, category) called on its own.
SearchVideosStart(game_name, game_type, category) ==
    /\ UNCHANGED <<notSearchVars, models, session_quota_used>>
    /\ session_quota_used
         + Len(SEARCH_PATTERNS[game_type][category]) * BaseSearchCost <= MaxQuota
    /\ search_videos_begin(game_name, game_type, category)

SearchVideosStep(response) ==
    /\ UNCHANGED <<notSearchVars, models>>
    /\ search_videos_pass(response)

\* The models a search can find in memory: the default one, and one with a
\* trusted channel, a noise channel and an exclusion of each tier.
SearchModelSamples ==
    {NewSearchModel,
     add_exclusion(add_exclusion(
         add_noise_channel(add_trusted_channel(NewSearchModel, "c1"), "c2"),
         "x", TRUE), "y", FALSE)}

\* A process in which the models have been trained and nothing was saved.
SearchInit ==
    /\ store = [d \in GameTypes |-> Absent]
    /\ models \in [GameTypes -> SearchModelSamples]
    /\ InitRest

SearchNext ==
    \/ \E g \in GameNames, d \in GameTypes, c \in Categories :
           SearchVideosStart(g, d, c)
    \/ \E response \in ProviderResponses(PatternMaxResults) :
           SearchVideosStep(response)

SpecSearch == SearchInit /\ [][SearchNext]_vars

----------------------------------------------------------------------------
(* Claims on search_videos *)

\* The scores with which the video id occurs in all_results.
ScoresOf(id) ==
    {all_results[i].score :
        i \in {j \in 1..Len(all_results) : all_results[j].video.id = id}}

SearchReturned ==
    sv_pc = "idle" /\ ret.op = "search_videos" /\ ret.kind = "return"

\* C4: a video id that the query templates found with different scores is in
\* the merged result exactly once, with the highest of its scores, whatever
\* the order in which its occurrences were found.
C4_DedupKeepsHighestScore ==
    (SearchReturned /\ ret.failed = {}) =>
        \A id \in {all_results[i].video.id : i \in 1..Len(all_results)} :
            /\ Cardinality({k \in 1..Len(ret.value) : ret.value[k].video.id = id}) = 1
            /\ \A k \in 1..Len(ret.value) :
                  ret.value[k].video.id = id =>
                      \A sc \in ScoresOf(id) : ret.value[k].score >= sc

\* C8: when the query of one template fails, search_videos aborts with an
\* error and returns no ranked results.
C8_TemplateFailureAborts ==
    (sv_pc = "idle" /\ ret.op = "search_videos" /\ ret.failed # {})
        => (ret.kind = "raise" /\ ret.value = <<>>)

\* C30: search_videos hands one query to the provider for each template of
\* the pattern list of game type and category, in the list's order, and each
\* query holds the template with the game name, one exclusion term for each
\* phrase of get_all_exclusions() and one channel term for each trusted
\* channel.
C30_OneQueryPerTemplate ==
    ret.op = "search_videos" =>
        /\ Len(ret.queries) = sv_index
        /\ (ret.kind = "return") = (Len(ret.queries) = Len(Patterns(sv_args)))
        /\ \A i \in 1..Len(ret.queries) :
               /\ ret.queries[i].base = <<Patterns(sv_args)[i], sv_args.game_name>>
               /\ ret.queries[i].exclusion_terms =
                      {<<"-", p>> : p \in models[sv_args.game_type].persistent_exclusions
                                          \cup models[sv_args.game_type].session_exclusions}
               /\ ret.queries[i].channel_query =
                      {<<"channel:", c>> : c \in models[sv_args.game_type].trusted_channels}

C30_Witness ==
    /\ sv_pc = "idle"
    /\ ret.op = "search_videos"
    /\ ret.kind = "return"
    /\ Len(ret.queries) = 4
    /\ ret.failed # {}
    /\ ret.value # <<>>
    /\ models[sv_args.game_type].persistent_exclusions # {}
    /\ models[sv_args.game_type].session_exclusions # {}
    /\ models[sv_args.game_type].trusted_channels # {}

----------------------------------------------------------------------------
(* search_videos with more candidates than it returns *)

\* The provider returns RankPageSize results to each query of this search.
RankPageSize == 4

RankIds ==
    <<"v01", "v02", "v03", "v04", "v05", "v06", "v07", "v08", "v09", "v10",
      "v11", "v12", "v13", "v14", "v15", "v16", "v17", "v18">>

\* The view counts down a result list: all low, every second one high, or
\* the first and the last high. A high count scores more.
ViewPatterns == {"low", "alternate", "ends"}

RankViews(p, i) ==
    CASE p = "low" -> 500
      [] p = "alternate" -> IF i % 2 = 0 THEN 5000 ELSE 500
      [] p = "ends" -> IF i = 1 \/ i = RankPageSize THEN 5000 ELSE 500

\* Three disjoint result lists, each seen with the three view patterns, so
\* that a video comes back from a later query with another score.
RankResponses ==
    {[ok |-> FALSE, results |-> <<>>], [ok |-> TRUE, results |-> <<>>]}
        \cup {[ok |-> TRUE,
               results |-> [i \in 1..RankPageSize |->
                              Video(RankIds[base * RankPageSize + i],
                                    <<"Catan", "how", "to", "play">>, "c1",
                                    RankViews(p, i), 0)]] :
                  base \in 0..2, p \in ViewPatterns}

RankNext ==
    \/ SearchVideosStart(<<"catan">>, "board", "how_to_play")
    \/ \E response \in RankResponses : SearchVideosStep(response)

SpecRank == Init /\ [][RankNext]_vars

\* The place of the first pair of all_results with the video id `id`.
FirstSeen(id) ==
    CHOOSE i \in 1..Len(all_results) :
        /\ all_results[i].video.id = id
        /\ \A j \in 1..(i - 1) : all_results[j].video.id # id

\* C20: the sequence search_videos returns has at most 10 entries, no video
\* id twice, and is ordered by score, highest first, entries of equal score
\* in the order in which their videos were first found (first template
\* first, the provider's order within a template).
C20_TopTenDistinctStable ==
    (sv_pc = "idle" /\ ret.op = "search_videos" /\ ret.kind = "return") =>
        /\ Len(ret.value) <= 10
        /\ \A i, j \in 1..Len(ret.value) :
               i < j =>
                   /\ ret.value[i].video.id # ret.value[j].video.id
                   /\ ret.value[i].score >= ret.value[j].score
                   /\ ret.value[i].score = ret.value[j].score =>
                          FirstSeen(ret.value[i].video.id)
                              < FirstSeen(ret.value[j].video.id)

C20_Witness ==
    /\ sv_pc = "idle"
    /\ ret.op = "search_videos"
    /\ ret.kind = "return"
    /\ Len(ret.value) = 10
    /\ Cardinality({all_results[i].video.id : i \in 1..Len(all_results)}) > 10
    /\ \E i, j \in 1..Len(all_results) :
           /\ i < j
           /\ all_results[i].video.id = all_results[j].video.id
           /\ all_results[i].score # all_results[j].score
    /\ \E i \in 1..9 :
           /\ ret.value[i].score = ret.value[i + 1].score
           /\ ret.value[i + 1].score > ret.value[10].score

----------------------------------------------------------------------------
(* Playlist history *)

\* YouTubeTools.extract_playlist_id: a playlist is named by its id or by a
\* URL that carries the id after "list=".
extract_playlist_id(url_or_id) == url_or_id.list

PlaylistId(id) == [form |-> "id", list |-> id]

\* YouTubeTools.add_to_history without the save: the entry with the same id
\* is removed, the new one is put in front, ten entries are kept.
HistoryLimit == 10

add_to_history_keeping(history, playlist_id, title) ==
    Take(<<[id |-> extract_playlist_id(playlist_id), title |-> title,
            last_used |-> Today]>> \o history, HistoryLimit)

add_to_history(history, playlist_id, title) ==
    LET clean_id == extract_playlist_id(playlist_id)
        others == SelectSeq(history, LAMBDA h : h.id # clean_id)
    IN Take(<<[id |-> clean_id, title |-> title, last_used |-> Today]>> \o others,
            HistoryLimit)

\* YouTubeTools._save_history: the file after the attempt; a failure is
\* printed and nothing else happens.
save_history(file, history, outcome) ==
    CASE outcome = "ok" -> [state |-> "saved", data |-> history]
      [] outcome = "open_fails" -> file
      [] outcome = "write_fails" -> [state |-> "corrupt", data |-> <<>>]

----------------------------------------------------------------------------
(* The training loop and the guide generator *)

\* The games the operator trains and builds guides for.
TrainGames == {<<"catan">>, <<"azul">>}

\* The phrases the operator types as exclusions.
TrainPhrases == {"x"}

\* max_results of the advanced_search call in training_search.
TrainingMaxResults == 20

\* The quota one process may use in a training run.
TrainMaxQuota == 1400

TrainVideo == Video("abc", <<"Catan", "how", "to", "play">>, "c1", 5000, 100)

\* What the provider answers during training: an error, or one video.
TrainResponses ==
    {[ok |-> FALSE, results |-> <<>>], [ok |-> TRUE, results |-> <<TrainVideo>>]}

\* What the provider answers to the queries of a guide.
GuideResponses == {[ok |-> TRUE, results |-> <<TrainVideo>>]}

\* What the operator selects from one section of a guide.
GuideSelections == {<<>>, <<1>>}

\* The session exclusions of the game type that were not added while
\* game_name was the target.
Stale(m, targets, game_name) ==
    {p \in m.session_exclusions : <<p, game_name>> \notin targets}

\* training_search: one query built from the model, `if not results: return`
\* (None, written <<>>: the callers only test `not results`), then the noise
\* filter.
training_search(m, used, response) ==
    LET r == advanced_search(used, TrainingMaxResults, TRUE, "", response) IN
    [used |-> r.used,
     value |-> IF r.kind # "return" \/ r.value = <<>>
               THEN <<>> ELSE FilterNoise(r.value, m)]

\* How training_session(game_name, game_type) stands after a step: at its
\* menu ("running"), back in the CLI's menu ("return"), or left by an
\* exception ("raise"); `after` names the step.
Training(kind, args, after) ==
    [op |-> "training_session", kind |-> kind, game_name |-> args.game_name,
     game_type |-> args.game_type, after |-> after]

InTraining == Training("running", t_args, "choice")

\* Menu entry 7 of the CLI and training_session up to its menu: the session
\* exclusions of the game type are cleared, the first search runs, and the
\* session ends at once when it finds nothing.
TrainingSessionStart(game_name, game_type, response) ==
    /\ UNCHANGED <<store, fetchVars, searchVars, historyVars, accountVars, last_search_game,
                   g_args, g_sections>>
    /\ pc = "main"
    /\ session_quota_used + BaseSearchCost <= TrainMaxQuota
    /\ LET m == clear_session_exclusions(models[game_type])
           r == training_search(m, session_quota_used, response)
       IN
       /\ models' = [models EXCEPT ![game_type] = m]
       /\ sess_target' = [sess_target EXCEPT ![game_type] = {}]
       /\ session_quota_used' = r.used
       /\ IF r.value = <<>>
          THEN /\ pc' = "main"
               /\ t_args' = NoTarget
               /\ t_results' = <<>>
               /\ ret' = Training("return", [game_name |-> game_name,
                                             game_type |-> game_type],
                                   "no_results")
          ELSE /\ pc' = "train_menu"
               /\ t_args' = [game_name |-> game_name, game_type |-> game_type]
               /\ t_results' = r.value
               /\ ret' = Training("running", t_args', "first_search")

\* The end of a menu choice 1 to 6: the changed model, and the search again
\* when the operator answers 'y'.
OfferRefresh(m, targets, refresh, response) ==
    /\ UNCHANGED <<store, fetchVars, searchVars, historyVars, accountVars, last_search_game,
                   g_args, g_sections, pc, t_args>>
    /\ models' = [models EXCEPT ![t_args.game_type] = m]
    /\ sess_target' = [sess_target EXCEPT ![t_args.game_type] = targets]
    /\ ret' = InTraining
    /\ IF refresh
       THEN /\ session_quota_used + BaseSearchCost <= TrainMaxQuota
            /\ LET r == training_search(m, session_quota_used, response) IN
               /\ session_quota_used' = r.used
               /\ t_results' = r.value
       ELSE UNCHANGED <<session_quota_used, t_results>>

TrainModel == models[t_args.game_type]

TrainTargets == sess_target[t_args.game_type]

\* Choice 1: flag a result and give a phrase, which becomes a session
\* exclusion.
TrainFlagResult(idx, phrase, refresh, response) ==
    /\ pc = "train_menu"
    /\ t_results # <<>>
    /\ idx \in 1..Len(t_results)
    /\ OfferRefresh(add_exclusion(TrainModel, phrase, FALSE),
                    TrainTargets \cup {<<Lower(phrase), t_args.game_name>>},
                    refresh, response)

\* channels_to_show of choices 2 and 3: the channels of the results that are
\* not yet in the set the choice fills.
channels_to_show(res, classified) ==
    SelectSeq([i \in 1..Len(res) |-> res[i].channel_title],
              LAMBDA c : c \notin classified)

\* Choice 2: mark the channel of a result as trusted.
TrainMarkTrusted(idx, refresh, response) ==
    /\ pc = "train_menu"
    /\ t_results # <<>>
    /\ LET shown == channels_to_show(t_results, TrainModel.trusted_channels) IN
       /\ idx \in 1..Len(shown)
       /\ OfferRefresh(add_trusted_channel(TrainModel, shown[idx]), TrainTargets,
                       refresh, response)

\* Choice 3: mark the channel of a result as noise.
TrainMarkNoise(idx, refresh, response) ==
    /\ pc = "train_menu"
    /\ t_results # <<>>
    /\ LET shown == channels_to_show(t_results, TrainModel.noise_channels) IN
       /\ idx \in 1..Len(shown)
       /\ OfferRefresh(add_noise_channel(TrainModel, shown[idx]), TrainTargets,
                       refresh, response)

\* Choice 4: a session exclusion for this game.
TrainAddSessionExclusion(phrase, refresh, response) ==
    /\ pc = "train_menu"
    /\ OfferRefresh(add_exclusion(TrainModel, phrase, FALSE),
                    TrainTargets \cup {<<Lower(phrase), t_args.game_name>>},
                    refresh, response)

\* Choice 5: a persistent exclusion. SearchModel.add_exclusion changes the set
\* and calls self._save_model, which SearchModel does not have: the
\* AttributeError leaves training_session, the CLI's main loop and the process.
TrainAddPersistentExclusion(phrase) ==
    /\ UNCHANGED <<store, fetchVars, searchVars, historyVars, accountVars, quotaVars,
                   last_search_game, g_args, g_sections, t_args, t_results,
                   sess_target>>
    /\ pc = "train_menu"
    /\ models' = [models EXCEPT
                    ![t_args.game_type] = add_exclusion(@, phrase, TRUE)]
    /\ pc' = "crashed"
    /\ ret' = Training("raise", t_args, "AttributeError")

\* Choice 6: remove an exclusion. The tier is chosen by looking the typed
\* phrase up in the persistent set; a persistent removal ends like choice 5.
TrainRemoveExclusion(phrase, refresh, response) ==
    /\ pc = "train_menu"
    /\ LET is_persistent == phrase \in TrainModel.persistent_exclusions IN
       IF phrase \in get_all_exclusions(TrainModel)
       THEN IF is_persistent
            THEN /\ UNCHANGED <<store, fetchVars, searchVars, historyVars, accountVars,
                                quotaVars, last_search_game, g_args, g_sections,
                                t_args, t_results, sess_target>>
                 /\ models' = [models EXCEPT
                      ![t_args.game_type] = remove_exclusion(@, phrase, TRUE)]
                 /\ pc' = "crashed"
                 /\ ret' = Training("raise", t_args, "AttributeError")
            ELSE OfferRefresh(remove_exclusion(TrainModel, phrase, FALSE),
                              {t \in TrainTargets : t[1] # Lower(phrase)},
                              refresh, response)
       ELSE OfferRefresh(TrainModel, TrainTargets, refresh, response)

\* Choice 7: the model is printed.
TrainShowModel ==
    /\ pc = "train_menu"
    /\ ret' = InTraining
    /\ UNCHANGED <<storeVars, fetchVars, searchVars, historyVars, accountVars, quotaVars,
                   trainVars>>

\* Choice 8: the search again.
TrainRefresh(response) ==
    /\ pc = "train_menu"
    /\ OfferRefresh(TrainModel, TrainTargets, TRUE, response)

\* Choice 10: the model of the game type is saved and the session ends.
TrainSaveAndExit(storage) ==
    /\ UNCHANGED <<models, fetchVars, searchVars, historyVars, accountVars, quotaVars,
                   last_search_game, g_args, g_sections, sess_target>>
    /\ pc = "train_menu"
    /\ store' = [store EXCEPT
                   ![t_args.game_type] = save_model(@, TrainModel, storage)]
    /\ pc' = "main"
    /\ t_args' = NoTarget
    /\ t_results' = <<>>
    /\ ret' = Training("return", t_args,
                        IF storage = "ok" THEN "save_and_exit"
                                          ELSE "save_failed_and_exit")

\* The categories of the guide's three sections, in order.
GuideCategories == <<"how_to_play", "reviews", "playthroughs">>

\* The quota of the twelve queries of one guide.
GuideCost == 3 * 4 * BaseSearchCost

\* generate_gameplay_playlist from its two prompts to its first search: the
\* session exclusions of the chosen game type are cleared unless the name
\* typed equals _last_search_game.
generate_begin(last, game_type, game_name) ==
    /\ session_quota_used + GuideCost <= TrainMaxQuota
    /\ IF last # game_name
       THEN /\ models' = [models EXCEPT
                            ![game_type] = clear_session_exclusions(@)]
            /\ sess_target' = [sess_target EXCEPT ![game_type] = {}]
       ELSE UNCHANGED <<models, sess_target>>
    /\ last_search_game' = game_name
    /\ g_args' = [game_name |-> game_name, game_type |-> game_type]
    /\ g_sections' = <<>>
    /\ t_args' = NoTarget
    /\ t_results' = <<>>
    /\ pc' = "generate"
    /\ ret' = [op |-> "generate_gameplay_playlist", kind |-> "running"]
    /\ UNCHANGED <<store, fetchVars, searchVars, historyVars, accountVars, quotaVars>>

\* Menu entry 6 of the CLI.
GenerateGameplayPlaylist(game_type, game_name) ==
    /\ pc = "main"
    /\ generate_begin(last_search_game, game_type, game_name)

\* Choice 9 of the training loop: _last_search_game becomes the game in
\* training, then generate_gameplay_playlist asks for its own type and name.
TrainGeneratePlaylist(game_type, game_name) ==
    /\ pc = "train_menu"
    /\ generate_begin(t_args.game_name, game_type, game_name)

\* The search of the next section starts.
GenerateSearch ==
    /\ UNCHANGED <<storeVars, fetchVars, historyVars, accountVars, quotaVars, trainVars>>
    /\ pc = "generate"
    /\ Len(g_sections) < Len(GuideCategories)
    /\ ret.op # "search_videos"
    /\ search_videos_begin(g_args.game_name, g_args.game_type,
                           GuideCategories[Len(g_sections) + 1])

GenerateSearchPass(response) ==
    /\ UNCHANGED <<storeVars, fetchVars, historyVars, accountVars, trainVars>>
    /\ pc = "generate"
    /\ search_videos_pass(response)

\* The selections display_results accepts for n results: nothing, or numbers
\* between 1 and n.
Selections(n) ==
    {<<>>} \cup {<<i>> : i \in 1..n} \cup {<<i, j>> : i \in 1..n, j \in 1..n}

\* display_results for the section just searched: the operator's selection
\* is kept with the results shown.
GenerateDisplay(selection) ==
    /\ UNCHANGED <<storeVars, fetchVars, historyVars, accountVars, quotaVars, pc,
                   last_search_game, t_args, t_results, g_args, sess_target>>
    /\ pc = "generate"
    /\ sv_pc = "idle"
    /\ ret.op = "search_videos" /\ ret.kind = "return"
    /\ LET formatted == [i \in 1..Len(ret.value) |-> ret.value[i].video] IN
       /\ selection \in Selections(Len(formatted))
       /\ g_sections' = Append(g_sections,
                               [results |-> formatted, selected |-> selection])
    /\ sv_args' = NoArgs
    /\ sv_index' = 0
    /\ all_results' = <<>>
    /\ sv_failed' = {}
    /\ UNCHANGED sv_pc
    /\ ret' = [op |-> "display_results", kind |-> "return"]

\* add_content, the loop over the videos of a selected playlist: a video
\* already added is skipped; an insertion that raises leaves the loop, and
\* the rest of the playlist with it. videos is what get_playlist_items
\* returned for item number k of the selection.
RECURSIVE add_videos(_, _, _, _, _)
add_videos(videos, j, acc, k, failing) ==
    IF j > Len(videos) THEN acc
    ELSE IF videos[j] \in acc.ids
    THEN add_videos(videos, j + 1, acc, k, failing)
    ELSE IF <<k, j + 1>> \in failing
    THEN acc
    ELSE add_videos(videos, j + 1,
                    [ids |-> acc.ids \cup {videos[j]},
                     inserted |-> Append(acc.inserted, videos[j])],
                    k, failing)

\* add_content for one section: the selected results in order, a video
\* already added is skipped, an item whose provider call raises is left.
\* acc is the pair of added_video_ids and the playlist so far; failing holds
\* <<k, n>> when the n-th provider call for item number k of the selection
\* raises (for a video its insertion; for a playlist the fetch of its items,
\* then the insertion of each of its videos).
RECURSIVE add_content_again(_, _, _, _)
RECURSIVE add_content(_, _, _, _)
add_content_again(section, k, acc, failing) ==
    IF k > Len(section.selected) THEN acc
    ELSE LET item == section.results[section.selected[k]]
             next == IF item.type = "playlist" \/ <<k, 1>> \in failing
                     THEN acc
                     ELSE [ids |-> acc.ids \cup {item.id},
                           inserted |-> Append(acc.inserted, item.id)]
         IN add_content_again(section, k + 1, next, failing)

add_content(section, k, acc, failing) ==
    IF k > Len(section.selected) THEN acc
    ELSE LET item == section.results[section.selected[k]]
             next == IF item.type = "playlist"
                     THEN IF <<k, 1>> \in failing
                          THEN acc
                          ELSE add_videos(item.videos, 1, acc, k, failing)
                     ELSE IF item.id \in acc.ids \/ <<k, 1>> \in failing
                     THEN acc
                     ELSE [ids |-> acc.ids \cup {item.id},
                           inserted |-> Append(acc.inserted, item.id)]
         IN add_content(section, k + 1, next, failing)

\* The playlists the provider creates.
NewPlaylistIds == {"PL1"}

GuideTitle(game_name) == game_name \o <<"-", "Complete", "Guide">>

\* The rest of generate_gameplay_playlist: the playlist is created (None
\* ends the method), the three sections are added, the playlist enters the
\* history.
GenerateBuild(created, failing, storage) ==
    /\ UNCHANGED <<storeVars, fetchVars, searchVars, quotaVars,
                   last_search_game, t_args, t_results, sess_target>>
    /\ pc = "generate"
    /\ Len(g_sections) = Len(GuideCategories)
    /\ pc' = "main"
    /\ g_args' = NoTarget
    /\ g_sections' = <<>>
    /\ IF created = "None"
       THEN /\ UNCHANGED <<historyVars, accountVars>>
            /\ ret' = [op |-> "generate_gameplay_playlist", kind |-> "return",
                       inserted |-> <<>>]
       ELSE LET none == [ids |-> {}, inserted |-> <<>>]
                a1 == add_content(g_sections[1], 1, none, failing[1])
                a2 == add_content(g_sections[2], 1, a1, failing[2])
                a3 == add_content(g_sections[3], 1, a2, failing[3])
            IN
            /\ UNCHANGED accountVars
            /\ playlist_history' = add_to_history(playlist_history,
                                       PlaylistId(created), GuideTitle(g_args.game_name))
            /\ history_file' = save_history(history_file, playlist_history',
                                            storage)
            /\ ret' = [op |-> "generate_gameplay_playlist", kind |-> "return",
                       inserted |-> a3.inserted]

TrainNext ==
    \/ \E g \in TrainGames, d \in GameTypes, response \in TrainResponses :
           TrainingSessionStart(g, d, response)
    \/ \E phrase \in TrainPhrases, refresh \in BOOLEAN, response \in TrainResponses :
           \/ \E idx \in 1..TrainingMaxResults :
                  TrainFlagResult(idx, phrase, refresh, response)
           \/ TrainAddSessionExclusion(phrase, refresh, response)
           \/ TrainRemoveExclusion(phrase, refresh, response)
    \/ \E idx \in 1..TrainingMaxResults, refresh \in BOOLEAN,
          response \in TrainResponses :
           \/ TrainMarkTrusted(idx, refresh, response)
           \/ TrainMarkNoise(idx, refresh, response)
    \/ \E phrase \in TrainPhrases : TrainAddPersistentExclusion(phrase)
    \/ TrainShowModel
    \/ \E response \in TrainResponses : TrainRefresh(response)
    \/ TrainSaveAndExit("ok")
    \/ \E d \in GameTypes, g \in TrainGames :
           \/ GenerateGameplayPlaylist(d, g)
           \/ TrainGeneratePlaylist(d, g)
    \/ GenerateSearch
    \/ \E response \in GuideResponses : GenerateSearchPass(response)
    \/ \E selection \in GuideSelections : GenerateDisplay(selection)
    \/ \E created \in NewPlaylistIds \cup {"None"},
          failing \in [1..3 -> SUBSET {<<1, 1>>}] :
           GenerateBuild(created, failing, "ok")
    \/ Restart

SpecTrain == Init /\ [][TrainNext]_vars

----------------------------------------------------------------------------
(* Claim on the session exclusions *)

\* C3: whenever a candidate search runs for a target name on a game type,
\* every session exclusion of that game type was added while that name was
\* the current target: and so it is while search_videos runs and while the
\* training loop, which searches with the model as it stands, is at its menu.
C3_SessionExclusionsOfTarget ==
    /\ sv_pc = "searching" =>
           Stale(models[sv_args.game_type], sess_target[sv_args.game_type],
                 sv_args.game_name) = {}
    /\ pc = "train_menu" =>
           Stale(TrainModel, TrainTargets, t_args.game_name) = {}

----------------------------------------------------------------------------
\* A training session starts for the game and game type of the session that
\* has just ended.
SameTargetTrainedAgain ==
    /\ pc = "main"
    /\ ret.op = "training_session"
    /\ ret.kind = "return"
    /\ ret'.op = "training_session"
    /\ ret'.game_name = ret.game_name
    /\ ret'.game_type = ret.game_type

\* C16: entering the training loop's search for the same target name as the
\* previously trained target leaves the session exclusions of that game type
\* as they were, and changes no other field of the model.
C16_SameTargetKeepsSession ==
    [][SameTargetTrainedAgain => models' = models]_vars

\* C17: when the operator chooses save-and-exit, the persistent exclusions,
\* the trusted and the noise channels of the game type, as they are in
\* memory at that moment, are written to its file (storage permitting), and
\* the loop ends: no further search, no change of the model, back in the
\* CLI's menu.
C17_CommitWritesAndExits ==
    [][(/\ pc = "train_menu"
        /\ ret'.op = "training_session"
        /\ ret'.after = "save_and_exit")
          => /\ store'[t_args.game_type] = Saved(to_dict(models[t_args.game_type]))
             /\ \A d \in GameTypes \ {t_args.game_type} : store'[d] = store[d]
             /\ models' = models
             /\ session_quota_used' = session_quota_used
             /\ pc' = "main"]_vars

\* A session in which a channel was marked and an exclusion added has been
\* committed over an older file.
C17_Witness ==
    /\ ret.op = "training_session"
    /\ ret.after = "save_and_exit"
    /\ pc = "main"
    /\ models[ret.game_type].session_exclusions # {}
    /\ models[ret.game_type].noise_channels # {}
    /\ store[ret.game_type].state = "saved"
    /\ store[ret.game_type].data.noise_channels # {}

\* What the provider answers in a process with noise channels: an error, or
\* one video of channel c1 and one of channel c2.
NoiseResponses ==
    {[ok |-> FALSE, results |-> <<>>],
     [ok |-> TRUE,
      results |-> <<Video("abc", <<"Catan", "how", "to", "play">>, "c1", 5000, 100),
                    Video("xyz", <<"Azul", "Review">>, "c2", 20000, 3000)>>]}

\* The CLI's menu runs one operation at a time: a candidate search starts
\* from the menu, and so does a training session, after the search is over.
NoiseSearchStart(game_type) ==
    /\ pc = "main"
    /\ SearchVideosStart(<<"catan">>, game_type, "how_to_play")

NoiseTrainingStart(game_type, response) ==
    /\ sv_pc = "idle"
    /\ TrainingSessionStart(<<"catan">>, game_type, response)

\* A candidate search, then a training session in which channels are marked
\* as noise.
NoiseNext ==
    \/ \E d \in GameTypes : NoiseSearchStart(d)
    \/ \E response \in NoiseResponses : SearchVideosStep(response)
    \/ \E d \in GameTypes, response \in NoiseResponses :
           NoiseTrainingStart(d, response)
    \/ \E idx \in 1..TrainingMaxResults, refresh \in BOOLEAN,
          response \in NoiseResponses :
           TrainMarkNoise(idx, refresh, response)

SpecNoise == SearchInit /\ [][NoiseNext]_vars

\* C21: no candidate returned by search_videos, and no result of a training
\* search, is of a channel that is among the noise channels of the game type
\* when the search runs.
C21_NoNoiseChannelReturned ==
    [][/\ (sv_pc = "searching" /\ ret'.op = "search_videos"
                               /\ ret'.kind = "return") =>
              \A i \in 1..Len(ret'.value) :
                  ret'.value[i].video.channel_title
                      \notin models[sv_args.game_type].noise_channels
       /\ (pc' = "train_menu" /\ ret'.op = "training_session"
                              /\ session_quota_used' # session_quota_used) =>
              \A i \in 1..Len(t_results') :
                  t_results'[i].channel_title
                      \notin models'[t_args'.game_type].noise_channels]_vars

C21_Witness ==
    /\ pc = "train_menu"
    /\ ret.op = "training_session"
    /\ ret.after = "first_search"
    /\ t_results # <<>>
    /\ models[t_args.game_type].noise_channels # {}
    /\ sv_args # NoArgs
    /\ sv_args.game_type = t_args.game_type
    /\ sv_pc = "idle"
    /\ all_results # <<>>

----------------------------------------------------------------------------
(* score_video on its own *)

\* The candidate the others are variations of: a 15-minute tutorial of a
\* channel that is neither trusted nor noise in SearchModelSamples.
ScoreBase == Video("abc", <<"Catan", "how", "to", "play">>, "c3", 5000, 100)

ViewCounts == {0, 500, 999, 1000, 1001, 5000, 10000, 25000}

LikeCounts == {0, 75, 100}

ScoreDurations ==
    {[h |-> 0, m |-> 15, s |-> 0], [h |-> 0, m |-> 0, s |-> 45],
     [h |-> 0, m |-> 25, s |-> 0], [h |-> 0, m |-> 40, s |-> 0],
     [h |-> 1, m |-> 5, s |-> 0], [h |-> 2, m |-> 0, s |-> 0]}

ScoreTitles ==
    {<<"Catan", "how", "to", "play">>, <<"Catan", "Review">>,
     <<"Catan", "playthrough">>, <<"Catan", "unboxing">>}

\* publishedAt as the provider sends it ("...Z": utc), a timestamp without
\* offset (naive) and a text that is no timestamp.
UploadDates ==
    {[kind |-> "utc", day |-> Today - 10], [kind |-> "unparseable", day |-> 0]}
        \cup {[kind |-> "naive", day |-> Today - a] : a \in {10, 100, 364, 365, 400}}

\* The candidates score_video is called with.
ScoreVideos ==
    {[ScoreBase EXCEPT !.view_count = v, !.like_count = l] :
         v \in ViewCounts, l \in LikeCounts}
      \cup {[ScoreBase EXCEPT !.duration = dur, !.title = t] :
                dur \in ScoreDurations, t \in ScoreTitles}
      \cup {[ScoreBase EXCEPT !.upload_date = u] : u \in UploadDates}
      \cup {[ScoreBase EXCEPT !.channel_title = c] : c \in {"c1", "c2"}}
      \cup {[ScoreBase EXCEPT !.details = FALSE]}

\* The days on which datetime.now() is read.
Clock == {Today, Today + 40}

\* yt.score_video(video, game_type, game_name), called on the day `now`: the
\* method reads its arguments and the clock and assigns nothing.
ScoreVideo(video, game_type, game_name, now) ==
    /\ ret' = [op |-> "score_video", kind |-> "return", video |-> video,
               game_type |-> game_type, game_name |-> game_name, now |-> now,
               value |-> score_video(video, game_type, game_name, now)]
    /\ UNCHANGED <<storeVars, fetchVars, searchVars, historyVars, accountVars, quotaVars,
                   trainVars>>

ScoreNext ==
    \E video \in ScoreVideos, d \in GameTypes, g \in GameNames, now \in Clock :
        ScoreVideo(video, d, g, now)

SpecScore == SearchInit /\ [][ScoreNext]_vars

\* Two calls of score_video, one after the other, with the same game type,
\* game name and day.
TwoScores ==
    /\ ret.op = "score_video"
    /\ ret'.op = "score_video"
    /\ ret'.game_type = ret.game_type
    /\ ret'.game_name = ret.game_name
    /\ ret'.now = ret.now

\* C22: with every other attribute held fixed, the score of a candidate with
\* 5000 views is at least its score with 500 views.
C22_MoreViewsNeverLess ==
    [][(/\ TwoScores
        /\ ret.video.view_count = 500
        /\ ret'.video = [ret.video EXCEPT !.view_count = 5000])
           => ret'.value >= ret.value]_vars

\* C23: score_video is a pure function of candidate, game type and game
\* name: a call changes no state, and two calls with the same three arguments
\* give the same score, whatever the day of each call.
C23_ScoreIsPure ==
    [][ret'.op = "score_video" =>
           /\ UNCHANGED <<storeVars, fetchVars, searchVars, historyVars, accountVars,
                          quotaVars, trainVars>>
           /\ (/\ ret.op = "score_video"
               /\ ret'.video = ret.video
               /\ ret'.game_type = ret.game_type
               /\ ret'.game_name = ret.game_name)
                  => ret'.value = ret.value]_vars

\* The second of two calls scores the candidate of the first with its
\* channel replaced by a member of the set `channels` of the game type's
\* model, the first candidate's channel being neither trusted nor noise.
ChannelClassified(channels) ==
    /\ TwoScores
    /\ ret.video.channel_title \notin
           models[ret.game_type].trusted_channels
               \cup models[ret.game_type].noise_channels
    /\ ret'.video.channel_title \in channels
    /\ ret'.video = [ret.video EXCEPT !.channel_title = ret'.video.channel_title]

\* C24: a candidate of a trusted channel scores 15 (the trusted_channel
\* weight) more than the same candidate of an unclassified channel, and a
\* candidate of a noise channel 10 (the noise_channel weight) less.
C24_ChannelWeightsApplied ==
    [][/\ ChannelClassified(models[ret.game_type].trusted_channels)
              => ret'.value = ret.value + 15
       /\ ChannelClassified(models[ret.game_type].noise_channels)
              => ret'.value = ret.value - 10]_vars

\* C25: a known view count v adds min(10, v // 1000) to the score: a
\* candidate without likes scores that much more with v views than with none.
C25_ViewCountFactor ==
    [][(/\ TwoScores
        /\ ret.video.details
        /\ ret.video.view_count = 0
        /\ ret.video.like_count = 0
        /\ ret'.video = [ret.video EXCEPT !.view_count = ret'.video.view_count])
           => ret'.value = ret.value + Min(10, ret'.video.view_count \div 1000)]_vars

\* The duration in whole minutes, and whether it lies in the range of the
\* category the title names.
NormalizedMinutes(duration) ==
    (3600 * duration.h + 60 * duration.m + duration.s) \div 60

InCategoryRange(title, minutes) ==
    IF TitleHas(title, <<"how", "to", "play">>) THEN 5 <= minutes /\ minutes <= 20
    ELSE IF TitleHas(title, <<"review">>) THEN 10 <= minutes /\ minutes <= 30
    ELSE IF TitleHas(title, <<"playthrough">>) THEN minutes >= 30
    ELSE FALSE

\* C26: the duration bonus (10) is given exactly when the duration in minutes
\* lies in the range of the category of the title: the candidate scores 10
\* more than the same candidate under a title of no category if so, and the
\* same if not.
C26_DurationBonusInRange ==
    [][(/\ TwoScores
        /\ ret.video.details
        /\ ret.video.title = <<"Catan", "unboxing">>
        /\ ret'.video = [ret.video EXCEPT !.title = ret'.video.title])
           => ret'.value = ret.value
                  + (IF InCategoryRange(ret'.video.title,
                                        NormalizedMinutes(ret'.video.duration))
                     THEN 10 ELSE 0)]_vars

\* C27: a parseable publish timestamp of age a days adds
\* min(10, (365 - a) // 36) when a < 365 and nothing otherwise, measured
\* against the same candidate with an unparseable timestamp; the call
\* returns in every case.
C27_RecencyFactor ==
    [][ret'.op = "score_video" =>
           /\ ret'.kind = "return"
           /\ (/\ TwoScores
               /\ ret.video.upload_date.kind = "unparseable"
               /\ ret'.video.upload_date.kind \in {"utc", "naive"}
               /\ ret'.video = [ret.video EXCEPT
                                  !.upload_date = ret'.video.upload_date])
                  => LET a == ret'.now - ret'.video.upload_date.day IN
                     ret'.value = ret.value
                         + (IF a < 365 THEN Min(10, (365 - a) \div 36) ELSE 0)]_vars

----------------------------------------------------------------------------
(* _parse_iso_duration *)

\* The numbers of the hour, minute and second components of the ISO 8601
\* durations the method is called with.
IsoHours == {0, 1, 2}

IsoMinutes == {0, 5, 59, 90}

IsoSeconds == {0, 45, 59, 60, 119}

\* "PT1H5M0S" as the sequence of its components; a component that is not
\* written is not in the sequence.
IsoDuration(given, h, m, s) ==
    (IF "H" \in given THEN <<[unit |-> "H", n |-> h]>> ELSE <<>>)
        \o (IF "M" \in given THEN <<[unit |-> "M", n |-> m]>> ELSE <<>>)
        \o (IF "S" \in given THEN <<[unit |-> "S", n |-> s]>> ELSE <<>>)

SecondsPerUnit == [H |-> 3600, M |-> 60, S |-> 1]

\* isodate.parse_duration(duration).total_seconds(): the timedelta of the
\* components that are written.
RECURSIVE total_seconds(_)
total_seconds(duration) ==
    IF duration = <<>> THEN 0
    ELSE SecondsPerUnit[Head(duration).unit] * Head(duration).n
             + total_seconds(Tail(duration))

\* a / b on numbers: the quotient, kept exact.
true_div(a, b) == [num |-> a, den |-> b]

int_float_rounded(q) == (2 * q.num + q.den) \div (2 * q.den)

\* int(x) of a float: the fraction is dropped, towards zero.
int_float(q) ==
    IF q.num >= 0 THEN q.num \div q.den ELSE 0 - ((0 - q.num) \div q.den)

parse_iso_duration(duration) == int_float(true_div(total_seconds(duration), 60))

\* yt._parse_iso_duration(duration); h, m and s are kept as the caller
\* meant them, a component that is not written being zero.
ParseIsoDuration(given, h, m, s) ==
    /\ ret' = [op |-> "_parse_iso_duration", kind |-> "return",
               arg |-> IsoDuration(given, h, m, s),
               h |-> IF "H" \in given THEN h ELSE 0,
               m |-> IF "M" \in given THEN m ELSE 0,
               s |-> IF "S" \in given THEN s ELSE 0,
               value |-> parse_iso_duration(IsoDuration(given, h, m, s))]
    /\ UNCHANGED <<storeVars, fetchVars, searchVars, historyVars, accountVars, quotaVars,
                   trainVars>>

DurationNext ==
    \E given \in SUBSET {"H", "M", "S"}, h \in IsoHours, m \in IsoMinutes,
       s \in IsoSeconds :
        ParseIsoDuration(given, h, m, s)

SpecDuration == Init /\ [][DurationNext]_vars

\* C28: for a duration of h hours, m minutes and s seconds, a missing
\* component counting as zero, _parse_iso_duration returns
\* (3600 h + 60 m + s) / 60 without its fraction.
C28_WholeMinutes ==
    ret.op = "_parse_iso_duration" =>
        /\ ret.kind = "return"
        /\ 60 * ret.value <= 3600 * ret.h + 60 * ret.m + ret.s
        /\ 3600 * ret.h + 60 * ret.m + ret.s < 60 * (ret.value + 1)

C28_Witness ==
    /\ ret.op = "_parse_iso_duration"
    /\ ret.arg = <<[unit |-> "M", n |-> 5], [unit |-> "S", n |-> 45]>>
    /\ ret.value = 5

----------------------------------------------------------------------------
(* Letter case of the exclusion phrases *)

\* Choice 6 of the training loop with the phrase as it is typed: the typed
\* text is looked up as it is in the persistent set and in
\* get_all_exclusions(), and only a text found there reaches
\* remove_exclusion (which lowers it); the refresh is offered in every case.
TrainRemoveTyped(phrase, refresh, response) ==
    /\ UNCHANGED <<store, fetchVars, searchVars, historyVars, accountVars, last_search_game,
                   g_args, g_sections, t_args>>
    /\ pc = "train_menu"
    /\ LET is_persistent == phrase \in TrainModel.persistent_exclusions
           found == phrase \in get_all_exclusions(TrainModel)
           m == IF found THEN remove_exclusion(TrainModel, phrase, is_persistent)
                ELSE TrainModel
           after == [op |-> "training_session",
                     kind |-> IF found /\ is_persistent THEN "raise" ELSE "running",
                     game_name |-> t_args.game_name,
                     game_type |-> t_args.game_type,
                     after |-> "remove", typed |-> phrase, before |-> TrainModel]
       IN
       /\ models' = [models EXCEPT ![t_args.game_type] = m]
       /\ ret' = after
       /\ IF found /\ is_persistent
          THEN /\ pc' = "crashed"
               /\ UNCHANGED <<sess_target, session_quota_used, t_results>>
          ELSE /\ pc' = pc
               /\ sess_target' =
                      [sess_target EXCEPT ![t_args.game_type] =
                           IF found THEN {t \in @ : t[1] # Lower(phrase)} ELSE @]
               /\ IF refresh
                  THEN /\ session_quota_used + BaseSearchCost <= TrainMaxQuota
                       /\ LET r == training_search(m, session_quota_used,
                                                   response) IN
                          /\ session_quota_used' = r.used
                          /\ t_results' = r.value
                  ELSE UNCHANGED <<session_quota_used, t_results>>

\* The model's methods called from the CLI's level, between sessions.
PhraseAdd(phrase, persistent) ==
    /\ pc = "main"
    /\ AddExclusion("video", phrase, persistent, "ok")

PhraseRemove(phrase, persistent) ==
    /\ pc = "main"
    /\ RemoveExclusion("video", phrase, persistent, "ok")

\* Phrases in either letter case, added and removed through the model's
\* methods and through the training loop.
PhraseNext ==
    \/ \E phrase \in Phrases, persistent \in BOOLEAN :
           \/ PhraseAdd(phrase, persistent)
           \/ PhraseRemove(phrase, persistent)
    \/ \E response \in TrainResponses :
           TrainingSessionStart(<<"catan">>, "video", response)
    \/ \E phrase \in Phrases, refresh \in BOOLEAN, response \in TrainResponses :
           \/ TrainAddSessionExclusion(phrase, refresh, response)
           \/ TrainRemoveTyped(phrase, refresh, response)
    \/ TrainSaveAndExit("ok")
    \/ Restart

SpecPhrase == Init /\ [][PhraseNext]_vars

\* C29: the members of both exclusion sets are lowercase in every state, and
\* removing a phrase that equals a stored exclusion up to letter case, by
\* remove_exclusion or by the remove choice of the training loop, removes
\* that exclusion.
C29_PhrasesLowercase ==
    /\ [](\A d \in GameTypes :
              \A p \in get_all_exclusions(models[d]) : Lower(p) = p)
    /\ [][/\ (/\ ret'.op \in {"remove_exclusion_session",
                               "remove_exclusion_persistent"}
              /\ Lower(ret'.arg) \in
                     (IF ret'.op = "remove_exclusion_session"
                      THEN ret'.before.session_exclusions
                      ELSE ret'.before.persistent_exclusions))
                 => Lower(ret'.arg) \notin
                        (IF ret'.op = "remove_exclusion_session"
                         THEN models'[ret'.game_type].session_exclusions
                         ELSE models'[ret'.game_type].persistent_exclusions)
          /\ (/\ ret'.op = "training_session"
              /\ ret'.after = "remove"
              /\ Lower(ret'.typed) \in get_all_exclusions(ret'.before))
                 => Lower(ret'.typed) \notin
                        get_all_exclusions(models'[ret'.game_type])]_vars

\* C34: when the remove choice of the training loop is given a phrase that
\* is in get_all_exclusions(), the phrase is in get_all_exclusions() no more
\* afterwards, also when both sets held it, and the loop is at its menu again.
C34_RemoveChoiceRemoves ==
    [][(/\ ret'.op = "training_session"
        /\ ret'.after = "remove"
        /\ ret'.typed \in get_all_exclusions(ret'.before))
           => /\ ret'.typed \notin get_all_exclusions(models'[ret'.game_type])
              /\ ret'.kind = "running"
              /\ pc' = "train_menu"]_vars

\* The same without the cases in which the persistent set held the phrase:
\* a phrase of the session set alone is removed and the loop goes on.
C34_SessionPhraseRemoved ==
    [][(/\ ret'.op = "training_session"
        /\ ret'.after = "remove"
        /\ ret'.typed \in ret'.before.session_exclusions
        /\ ret'.typed \notin ret'.before.persistent_exclusions)
           => /\ ret'.typed \notin get_all_exclusions(models'[ret'.game_type])
              /\ ret'.kind = "running"
              /\ pc' = "train_menu"]_vars

\* The phrase was in both sets when it was typed at the remove choice: the
\* session set still holds it and the loop has ended.
C34_BothSetsReached ==
    /\ ret.op = "training_session"
    /\ ret.after = "remove"
    /\ ret.typed \in ret.before.session_exclusions
    /\ ret.typed \in ret.before.persistent_exclusions
    /\ ret.typed \in models[ret.game_type].session_exclusions
    /\ pc = "crashed"

----------------------------------------------------------------------------
(* The quota ledger and its status *)

\* get_quota_status(): used, remaining and total (percent_used, a float for
\* printing, is left out).
get_quota_status(used) ==
    [used |-> used, remaining |-> DAILY_QUOTA - used, total |-> DAILY_QUOTA]

\* yt.get_quota_status(), as the CLI's quota entry calls it.
GetQuotaStatus ==
    /\ ret' = [op |-> "get_quota_status", kind |-> "return",
               value |-> get_quota_status(session_quota_used)]
    /\ UNCHANGED <<storeVars, fetchVars, searchVars, historyVars, accountVars, quotaVars,
                   trainVars>>

LedgerNext ==
    \/ \E points \in {50, 100, 101, 150}, answer \in Answers :
           TrackQuota(points, answer)
    \/ GetQuotaStatus

SpecLedger == Init /\ [][LedgerNext]_vars

\* C32: the used points start at 0, never decrease and grow by exactly the
\* points of each committed charge (a charge refused at the prompt is not
\* committed); a charge is refused at the prompt only, never for lack of
\* remaining points; get_quota_status reports total 10000 and remaining
\* total - used and leaves the ledger alone.
C32_LedgerSumsCommittedCharges ==
    /\ [](ret.op = "__init__" => session_quota_used = 0)
    /\ [][/\ session_quota_used' >= session_quota_used
          /\ ret'.op = "_track_quota" =>
                 /\ session_quota_used' = session_quota_used
                        + (IF ret'.kind = "return" THEN ret'.points ELSE 0)
                 /\ ret'.kind = "raise" =>
                        (ret'.points > 100 /\ ret'.answer # "y")
          /\ ret'.op = "get_quota_status" =>
                 /\ session_quota_used' = session_quota_used
                 /\ ret'.value.used = session_quota_used
                 /\ ret'.value.total = 10000
                 /\ ret'.value.remaining = 10000 - session_quota_used]_vars

----------------------------------------------------------------------------
(* The playlist history *)

\* The operator has MaxPlaylists playlists, more than the history holds.
MaxPlaylists == 11

PlaylistNames ==
    <<"PL01", "PL02", "PL03", "PL04", "PL05", "PL06", "PL07", "PL08", "PL09",
      "PL10", "PL11", "PL12", "PL13">>

\* yt.add_to_history(playlist_id, title): the list is changed and saved.
AddToHistory(playlist_id, title, outcome) ==
    /\ playlist_history' = add_to_history(playlist_history, playlist_id, title)
    /\ history_file' = save_history(history_file, playlist_history', outcome)
    /\ ret' = [op |-> "add_to_history", kind |-> "return",
               arg |-> extract_playlist_id(playlist_id),
               before |-> playlist_history]
    /\ UNCHANGED <<storeVars, fetchVars, searchVars, quotaVars, trainVars,
                   accountVars>>

\* The next playlist that was never used before is used, by id or by URL.
UseNewPlaylist(form, outcome) ==
    /\ \E n \in 1..MaxPlaylists :
           /\ \A i \in 1..Len(playlist_history) :
                  \E k \in 1..(n - 1) :
                      playlist_history[i].id = PlaylistNames[k]
           /\ n > 1 => \E i \in 1..Len(playlist_history) :
                           playlist_history[i].id = PlaylistNames[n - 1]
           /\ AddToHistory([form |-> form, list |-> PlaylistNames[n]], "title",
                           outcome)

\* A playlist of the history is used again, the newest or the oldest one,
\* while the history is short or about to be full.
UseKnownPlaylist(form, outcome) ==
    \E i \in {1, Len(playlist_history)} :
        /\ i \in 1..Len(playlist_history)
        /\ Len(playlist_history) <= 2 \/ Len(playlist_history) >= HistoryLimit - 1
        /\ AddToHistory([form |-> form, list |-> playlist_history[i].id],
                        "title", outcome)

HistoryNext ==
    \E form \in {"id", "url"} :
        \/ UseNewPlaylist(form, "ok")
        \/ UseKnownPlaylist(form, "ok")

SpecHistory == Init /\ [][HistoryNext]_vars

\* The place of the entry with this id in a history that holds it.
PlaceOf(history, id) ==
    CHOOSE i \in 1..Len(history) : history[i].id = id

\* C33: after add_to_history calls that started from an empty history, the
\* history has at most 10 entries and no playlist id twice; after each call
\* the playlist just added is first, and the entries behind it were in the
\* history before the call, in the same relative order.
C33_HistoryNewestFirst ==
    /\ [](/\ Len(playlist_history) <= 10
          /\ \A i, j \in 1..Len(playlist_history) :
                 playlist_history[i].id = playlist_history[j].id => i = j)
    /\ [][ret'.op = "add_to_history" =>
             /\ Len(playlist_history') >= 1
             /\ playlist_history'[1].id = ret'.arg
             /\ \A i \in 2..Len(playlist_history') :
                    \E k \in 1..Len(playlist_history) :
                        playlist_history[k] = playlist_history'[i]
             /\ \A i, j \in 2..Len(playlist_history') :
                    i < j => PlaceOf(playlist_history, playlist_history'[i].id)
                             < PlaceOf(playlist_history, playlist_history'[j].id)]_vars

\* The oldest entry of a full history, from which another playlist was
\* already dropped, was used again by its URL and is first now.
C33_Witness ==
    /\ ret.op = "add_to_history"
    /\ Len(ret.before) = 10
    /\ ret.before[10].id = ret.arg
    /\ Len(playlist_history) = 10
    /\ playlist_history[1].id = ret.arg
    /\ \A i \in 1..10 : playlist_history[i].id # "PL01"
    /\ history_file.state = "saved"

----------------------------------------------------------------------------
(* The playlist manager of the command line *)

\* The provider hands out at most MaxIds ids, to playlists and to their items.
MaxIds == 10

HasList(a, playlist_id) ==
    \E i \in 1..Len(a.lists) : a.lists[i].id = playlist_id

PlaceOfList(a, playlist_id) ==
    CHOOSE i \in 1..Len(a.lists) : a.lists[i].id = playlist_id

VideoIds(playlist_items) ==
    [i \in 1..Len(playlist_items) |-> playlist_items[i].videoId]

Reversed(seq) == [i \in 1..Len(seq) |-> seq[Len(seq) + 1 - i]]

\* One more provider call in the log of an operation. The call number
\* fail_at of the operation is the one the provider refuses, 0 for none.
Logged(st, call, target, ok) ==
    Append(st.log, [call |-> call, target |-> target, ok |-> ok])

Refused(st, fail_at) == Len(st.log) + 1 = fail_at

\* yt.get_my_playlists(): the ids of the playlists, newest first (None, here
\* an empty list, when the provider fails).
get_my_playlists(a, ok) ==
    IF ok THEN Reversed([i \in 1..Len(a.lists) |-> a.lists[i].id]) ELSE <<>>

\* yt.create_playlist(title): the new id, or None (0) after a provider error.
create_playlist(st, fail_at) ==
    IF Refused(st, fail_at)
    THEN [a |-> st.a, log |-> Logged(st, "create", 0, FALSE), value |-> 0]
    ELSE [a |-> [ids |-> st.a.ids + 1,
                 lists |-> Append(st.a.lists,
                                  [id |-> st.a.ids + 1, items |-> <<>>])],
          log |-> Logged(st, "create", st.a.ids + 1, TRUE),
          value |-> st.a.ids + 1]

\* yt.get_playlist_items(playlist_id): the items, or the provider's
\* exception, which the method does not catch.
get_playlist_items(st, playlist_id, fail_at) ==
    LET ok == ~Refused(st, fail_at) /\ HasList(st.a, playlist_id) IN
    [a |-> st.a, log |-> Logged(st, "fetch", playlist_id, ok), raised |-> ~ok,
     value |-> IF ok THEN st.a.lists[PlaceOfList(st.a, playlist_id)].items
               ELSE <<>>]

\* yt.add_video_to_playlist(playlist_id, video_id): a new item at the end of
\* the playlist, or the provider's exception, which the method does not catch.
add_video_to_playlist(st, playlist_id, video_id, fail_at) ==
    LET ok == ~Refused(st, fail_at) /\ HasList(st.a, playlist_id) IN
    [a |-> IF ok
           THEN [ids |-> st.a.ids + 1,
                 lists |-> [st.a.lists EXCEPT
                               ![PlaceOfList(st.a, playlist_id)].items =
                                   Append(@, [id |-> st.a.ids + 1,
                                              videoId |-> video_id])]]
           ELSE st.a,
     log |-> Logged(st, "insert", playlist_id, ok),
     raised |-> ~ok]

\* yt.delete_playlist(playlist_id): True, or False after a provider error.
delete_playlist(st, playlist_id, fail_at) ==
    LET ok == ~Refused(st, fail_at) /\ HasList(st.a, playlist_id) IN
    [a |-> IF ok
           THEN [st.a EXCEPT !.lists = SelectSeq(@, LAMBDA l : l.id # playlist_id)]
           ELSE st.a,
     log |-> Logged(st, "delete", playlist_id, ok),
     value |-> ok]

HasItem(a, item_id) ==
    \E i \in 1..Len(a.lists) :
        \E k \in 1..Len(a.lists[i].items) : a.lists[i].items[k].id = item_id

\* yt.remove_video_from_playlist(*args): the method takes playlist_id and
\* item_id. A call with another number of arguments raises TypeError before
\* the provider is asked; a call with both deletes the item and returns True,
\* or returns False after a provider error.
remove_video_from_playlist(st, args, fail_at) ==
    IF Len(args) # 2
    THEN [a |-> st.a, log |-> st.log, raised |-> TRUE]
    ELSE LET ok == ~Refused(st, fail_at) /\ HasItem(st.a, args[2]) IN
         [a |-> IF ok
                THEN [st.a EXCEPT !.lists =
                         [i \in 1..Len(@) |->
                             [@[i] EXCEPT !.items =
                                 SelectSeq(@, LAMBDA it : it.id # args[2])]]]
                ELSE st.a,
          log |-> Logged(st, "remove", args[2], ok),
          raised |-> FALSE]

\* yt.get_video_details(video_id): the details, or None after a provider
\* error.
get_video_details(st, video_id, fail_at) ==
    [a |-> st.a, log |-> Logged(st, "details", video_id, ~Refused(st, fail_at)),
     value |-> ~Refused(st, fail_at)]

\* for item in ...: await yt.add_video_to_playlist(playlist_id, video_id),
\* inside try/except when swallow is true. added counts the insertions made.
RECURSIVE insert_all(_, _, _, _, _)
insert_all(st, playlist_id, videos, swallow, fail_at) ==
    IF videos = <<>>
    THEN [a |-> st.a, log |-> st.log, raised |-> FALSE]
    ELSE LET r == add_video_to_playlist(st, playlist_id, Head(videos), fail_at) IN
         IF r.raised /\ ~swallow
         THEN r
         ELSE insert_all(r, playlist_id, Tail(videos), swallow, fail_at)

\* merge_playlists, "Copy videos in order".
RECURSIVE copy_sources(_, _, _, _, _)
copy_sources(st, new_playlist_id, sources, swallow, fail_at) ==
    IF sources = <<>>
    THEN [a |-> st.a, log |-> st.log, raised |-> FALSE]
    ELSE LET f == get_playlist_items(st, Head(sources), fail_at) IN
         IF f.raised
         THEN f
         ELSE LET r == insert_all(f, new_playlist_id, VideoIds(f.value),
                                  swallow, fail_at) IN
              IF r.raised
              THEN r
              ELSE copy_sources(r, new_playlist_id, Tail(sources), swallow,
                                fail_at)

\* merge_playlists, "Delete original playlists".
RECURSIVE delete_all(_, _, _)
delete_all(st, ids, fail_at) ==
    IF ids = <<>>
    THEN st
    ELSE delete_all(delete_playlist(st, Head(ids), fail_at), Tail(ids), fail_at)

\* merge_playlists(yt, playlists) with a title, as a function of the account,
\* the numbers typed, the answer to the confirmation and the provider's
\* refusal. An exception of the provider is no ValueError and leaves the
\* function.
merge(a, listed, indices, confirm, swallow, fail_at) ==
    LET valid_indices == SelectSeq(indices, LAMBDA i : 1 <= i /\ i <= Len(listed))
        sources == [k \in 1..Len(valid_indices) |-> listed[valid_indices[k]]]
        st == [a |-> a, log |-> <<>>]
        created == create_playlist(st, fail_at)
        copied == copy_sources(created, created.value, sources, swallow, fail_at)
        deleted == delete_all(copied, sources, fail_at)
        Out(s, kind, reached) ==
            [a |-> s.a, log |-> s.log, kind |-> kind, reached |-> reached,
             sources |-> sources, new_playlist_id |-> created.value]
    IN
    IF Len(valid_indices) < 2
    THEN [a |-> a, log |-> <<>>, kind |-> "return", reached |-> "too_few",
          sources |-> sources, new_playlist_id |-> 0]
    ELSE IF confirm # "yes"
    THEN [a |-> a, log |-> <<>>, kind |-> "return", reached |-> "cancelled",
          sources |-> sources, new_playlist_id |-> 0]
    ELSE IF created.value = 0
    THEN Out(created, "return", "create_failed")
    ELSE IF copied.raised
    THEN Out(copied, "raise", "copy_failed")
    ELSE Out(deleted, "return", "merged")

merge_playlists_continuing(a, listed, indices, confirm, fail_at) ==
    merge(a, listed, indices, confirm, TRUE, fail_at)

merge_playlists(a, listed, indices, confirm, fail_at) ==
    merge(a, listed, indices, confirm, FALSE, fail_at)

\* sorted(valid_indices, reverse=True)
RECURSIVE sorted_reverse(_)
sorted_reverse(seq) ==
    IF seq = <<>>
    THEN <<>>
    ELSE LET m == CHOOSE i \in 1..Len(seq) : \A j \in 1..Len(seq) : seq[j] <= seq[i]
         IN <<seq[m]>> \o sorted_reverse([k \in 1..(Len(seq) - 1) |->
                                             IF k < m THEN seq[k] ELSE seq[k + 1]])

\* for item in ...: try: await yt.remove_video_from_playlist(item['id']),
\* the call as the command line writes it, with the item id alone.
RECURSIVE remove_all(_, _, _)
remove_all(st, item_ids, fail_at) ==
    IF item_ids = <<>>
    THEN [a |-> st.a, log |-> st.log]
    ELSE remove_all(remove_video_from_playlist(st, <<Head(item_ids)>>, fail_at),
                    Tail(item_ids), fail_at)

\* The scan for private videos: how many detail calls came back with None.
RECURSIVE scan_private(_, _, _)
scan_private(st, videos, fail_at) ==
    IF videos = <<>>
    THEN [a |-> st.a, log |-> st.log, private_count |-> 0]
    ELSE LET r == get_video_details(st, Head(videos), fail_at)
             rest == scan_private(r, Tail(videos), fail_at)
         IN [rest EXCEPT !.private_count = @ + (IF r.value THEN 0 ELSE 1)]

\* view_edit_playlist, choice 2 after the confirmation.
reverse_playlist(st, playlist_id, playlist_items, keep_going, fail_at) ==
    LET scanned == scan_private(st, VideoIds(playlist_items), fail_at)
        temp == create_playlist(scanned, fail_at)
        filled == insert_all(temp, temp.value, Reversed(VideoIds(playlist_items)),
                             TRUE, fail_at)
        emptied == remove_all(filled,
                              [i \in 1..Len(playlist_items) |-> playlist_items[i].id],
                              fail_at)
        temp_items == get_playlist_items(emptied, temp.value, fail_at)
        restored == insert_all(temp_items, playlist_id, VideoIds(temp_items.value),
                               TRUE, fail_at)
        dropped == delete_playlist(restored, temp.value, fail_at)
        Out(s, kind, reached) ==
            [a |-> s.a, log |-> s.log, kind |-> kind, reached |-> reached,
             temp_playlist_id |-> temp.value]
    IN
    IF scanned.private_count > 0 /\ keep_going # "yes"
    THEN Out(scanned, "return", "cancelled")
    ELSE IF temp.value = 0
    THEN Out(temp, "return", "create_failed")
    ELSE IF temp_items.raised
    THEN Out(temp_items, "raise", "fetch_failed")
    ELSE Out(dropped, "return", "reversed")

\* view_edit_playlist(yt, playlists) as a function of the account, the
\* playlist number, the choice, the video numbers typed for choice 1 and the
\* answers.
view_edit_playlist(a, listed, num, choice, selection, confirm, keep_going, fail_at) ==
    LET st == [a |-> a, log |-> <<>>]
        fetched == get_playlist_items(st, listed[num], fail_at)
        valid_indices ==
            SelectSeq(selection, LAMBDA i : 1 <= i /\ i <= Len(fetched.value))
        chosen == sorted_reverse(valid_indices)
        removed == remove_all(fetched,
                              [k \in 1..Len(chosen) |-> fetched.value[chosen[k]].id],
                              fail_at)
        reversed == reverse_playlist(fetched, listed[num], fetched.value,
                                     keep_going, fail_at)
        Out(s, kind, reached) ==
            [a |-> s.a, log |-> s.log, kind |-> kind, reached |-> reached,
             temp_playlist_id |-> 0]
    IN
    IF num \notin 1..Len(listed)
    THEN Out(st, "return", "invalid")
    ELSE IF fetched.raised
    THEN Out(fetched, "raise", "fetch_failed")
    ELSE IF fetched.value = <<>>
    THEN Out(fetched, "return", "empty")
    ELSE IF choice = "1"
    THEN IF valid_indices = <<>> \/ confirm # "yes"
         THEN Out(fetched, "return", "cancelled")
         ELSE Out(removed, "return", "removed")
    ELSE IF choice = "2"
    THEN IF confirm # "yes"
         THEN Out(fetched, "return", "cancelled")
         ELSE reversed
    ELSE Out(fetched, "return", "menu")

\* list_my_playlists opens: the playlists are fetched once for its menu.
ListMyPlaylists(ok) ==
    /\ playlists' = get_my_playlists(account, ok)
    /\ ret' = [op |-> "list_my_playlists", kind |-> "return"]
    /\ UNCHANGED <<account, storeVars, fetchVars, searchVars, quotaVars,
                   trainVars, historyVars>>

\* Choice 2 of the menu.
MergePlaylists(indices, confirm, fail_at) ==
    /\ playlists # <<>>
    /\ LET r == merge_playlists(account, playlists, indices, confirm, fail_at) IN
       /\ r.a.ids <= MaxIds
       /\ account' = r.a
       /\ ret' = [op |-> "merge_playlists", kind |-> r.kind,
                  reached |-> r.reached, log |-> r.log, sources |-> r.sources,
                  new_playlist_id |-> r.new_playlist_id, before |-> account]
    /\ UNCHANGED <<playlists, storeVars, fetchVars, searchVars, quotaVars,
                   trainVars, historyVars>>

\* Choice 3 of the menu.
ViewEditPlaylist(num, choice, selection, confirm, keep_going, fail_at) ==
    /\ playlists # <<>>
    /\ LET r == view_edit_playlist(account, playlists, num, choice, selection,
                                   confirm, keep_going, fail_at) IN
       /\ r.a.ids <= MaxIds
       /\ account' = r.a
       /\ ret' = [op |-> "view_edit_playlist", kind |-> r.kind,
                  reached |-> r.reached, log |-> r.log, choice |-> choice,
                  playlist_id |-> IF num \in 1..Len(playlists)
                                  THEN playlists[num] ELSE 0,
                  selection |-> selection,
                  temp_playlist_id |-> r.temp_playlist_id, before |-> account]
    /\ UNCHANGED <<playlists, storeVars, fetchVars, searchVars, quotaVars,
                   trainVars, historyVars>>

\* Choice 3 of the menu, then choice 1: videos are removed.
RemoveVideos(num, selection, confirm, fail_at) ==
    /\ selection # <<>>
    /\ ViewEditPlaylist(num, "1", selection, confirm, "no", fail_at)

\* Choice 3 of the menu, then choice 2: the playlist is reversed.
ReversePlaylist(num, confirm, keep_going, fail_at) ==
    /\ num >= 1
    /\ ViewEditPlaylist(num, "2", <<>>, confirm, keep_going, fail_at)

\* The numbers the operator types: one or two of them, one past the end
\* included.
TypedNumbers == {<<1>>, <<1, 2>>, <<2, 1>>, <<3>>}

\* The provider refuses no call, or one of the first MaxRefused calls of an
\* operation that the operator has confirmed.
MaxRefused == 6

RefusedCalls(confirm) == IF confirm = "yes" THEN 0..MaxRefused ELSE {0}

ManageNext ==
    \/ \E ok \in BOOLEAN : ListMyPlaylists(ok)
    \/ \E indices \in TypedNumbers \ {<<3>>}, confirm \in {"yes", "no"} :
           \E fail_at \in RefusedCalls(confirm) :
               MergePlaylists(indices, confirm, fail_at)
    \/ \E num \in 1..2, confirm \in {"yes", "no"} :
           \/ \E selection \in TypedNumbers \ {<<1, 2>>} :
                  \E fail_at \in RefusedCalls(confirm) \cap 0..1 :
                      RemoveVideos(num, selection, confirm, fail_at)
           \/ \E keep_going \in {"yes", "no"} :
                  \E fail_at \in RefusedCalls(confirm) \cap 0..2 :
                      ReversePlaylist(num, confirm, keep_going, fail_at)

SpecManage == Init /\ [][ManageNext]_vars

\* A creation, a fetch or an insertion failed before call number k of the log.
RefusedBefore(log, k) ==
    \E j \in 1..(k - 1) :
        log[j].call \in {"create", "fetch", "insert"} /\ ~log[j].ok

\* The videos of the playlists with these ids in this account, one playlist
\* after the other.
RECURSIVE VideosOfAll(_, _)
VideosOfAll(a, ids) ==
    IF ids = <<>>
    THEN <<>>
    ELSE (IF HasList(a, Head(ids))
          THEN VideoIds(a.lists[PlaceOfList(a, Head(ids))].items)
          ELSE <<>>) \o VideosOfAll(a, Tail(ids))

\* How many insertions succeeded before call number k of the log.
InsertedBefore(log, k) ==
    Cardinality({j \in 1..(k - 1) : log[j].call = "insert" /\ log[j].ok})

\* C36: merge_playlists asks the provider to delete an original playlist only
\* after the new playlist was created and every item of every selected
\* playlist was inserted into it; when the creation, a fetch or an insertion
\* fails, no deletion is asked for and every playlist of the account is
\* still there.
C36_DeleteAfterCompleteCopy ==
    ret.op = "merge_playlists" =>
        /\ \A k \in 1..Len(ret.log) :
               ret.log[k].call = "delete" =>
                   /\ ret.log[1].call = "create" /\ ret.log[1].ok
                   /\ ~RefusedBefore(ret.log, k)
                   /\ InsertedBefore(ret.log, k)
                          = Len(VideosOfAll(ret.before, ret.sources))
                   /\ \A s \in 1..Len(ret.sources) :
                          \E j \in 1..(k - 1) :
                              /\ ret.log[j].call = "fetch"
                              /\ ret.log[j].target = ret.sources[s]
        /\ RefusedBefore(ret.log, Len(ret.log) + 1) =>
               /\ \A k \in 1..Len(ret.log) : ret.log[k].call # "delete"
               /\ \A i \in 1..Len(ret.before.lists) :
                      HasList(account, ret.before.lists[i].id)

\* Two playlists with videos were merged: both are gone and the new playlist
\* holds the videos of the first one typed, then those of the second.
C36_Witness ==
    /\ ret.op = "merge_playlists"
    /\ ret.reached = "merged"
    /\ Len(ret.sources) = 2
    /\ ret.sources[1] # ret.sources[2]
    /\ Len(VideosOfAll(ret.before, ret.sources)) = 3
    /\ \A s \in 1..2 : ~HasList(account, ret.sources[s])
    /\ VideosOfAll(account, <<ret.new_playlist_id>>)
           = VideosOfAll(ret.before, ret.sources)

\* An insertion of a video of the second playlist failed: the merge ended
\* with the provider's exception and both originals are there.
C36_FailedInsertReached ==
    /\ ret.op = "merge_playlists"
    /\ ret.kind = "raise"
    /\ Len(ret.log) >= 5
    /\ ret.log[Len(ret.log)].call = "insert"
    /\ \A s \in 1..Len(ret.sources) : HasList(account, ret.sources[s])

\* The items of a playlist of the account, none when it does not exist.
ItemsOf(a, playlist_id) ==
    IF HasList(a, playlist_id)
    THEN a.lists[PlaceOfList(a, playlist_id)].items
    ELSE <<>>

\* C37: after a confirmed reversal in which every provider call succeeded,
\* the playlist holds the videos it held before in reversed order and the
\* temporary playlist is gone; after a confirmed removal in which every
\* provider call succeeded, the playlist holds the items it held before
\* without those at the numbers typed.
C37_ReversedAndRemoved ==
    (/\ ret.op = "view_edit_playlist"
     /\ \A k \in 1..Len(ret.log) : ret.log[k].ok)
        => /\ ret.reached = "reversed" =>
                  /\ VideoIds(ItemsOf(account, ret.playlist_id))
                         = Reversed(VideoIds(ItemsOf(ret.before, ret.playlist_id)))
                  /\ ~HasList(account, ret.temp_playlist_id)
           /\ ret.reached = "removed" =>
                  ItemsOf(account, ret.playlist_id)
                      = LET old == ItemsOf(ret.before, ret.playlist_id) IN
                        SelectSeq(old, LAMBDA it :
                            \A k \in 1..Len(ret.selection) :
                                \/ ret.selection[k] \notin 1..Len(old)
                                \/ old[ret.selection[k]].id # it.id)

\* What a confirmed reversal without a refused call leaves: the temporary
\* playlist is gone and the playlist holds its old items followed by their
\* videos in reversed order.
C37_ReversalAppended ==
    (/\ ret.op = "view_edit_playlist"
     /\ ret.reached = "reversed"
     /\ \A k \in 1..Len(ret.log) : ret.log[k].ok)
        => /\ ~HasList(account, ret.temp_playlist_id)
           /\ VideoIds(ItemsOf(account, ret.playlist_id))
                  = VideoIds(ItemsOf(ret.before, ret.playlist_id))
                        \o Reversed(VideoIds(ItemsOf(ret.before, ret.playlist_id)))

\* A playlist of two videos went through a confirmed reversal without a
\* refused call.
C37_ReversalReached ==
    /\ ret.op = "view_edit_playlist"
    /\ ret.reached = "reversed"
    /\ \A k \in 1..Len(ret.log) : ret.log[k].ok
    /\ Len(ItemsOf(ret.before, ret.playlist_id)) = 2


----------------------------------------------------------------------------
(* The three sections of a guide *)

\* Results as add_content takes them: two videos and a playlist that holds
\* both of them and a third one. (search_videos asks the provider for videos
\* only; the playlist is what the branch for item['type'] == 'playlist' is
\* written for.)
GuideResults ==
    <<[id |-> "a", type |-> "video"],
      [id |-> "b", type |-> "video"],
      [id |-> "PLa", type |-> "playlist", videos |-> <<"a", "c", "b">>]>>

\* What the operator selects in one section.
GuidePicks == {<<>>, <<1, 2>>, <<2, 3>>, <<3>>, <<2, 2>>}

\* The provider calls that raise in one section.
GuideFailures == {{}, {<<1, 1>>}, {<<1, 3>>}}

\* The three calls of add_content in generate_gameplay_playlist, for what the
\* operator selected in each section.
AddContent(selected, failing) ==
    /\ LET none == [ids |-> {}, inserted |-> <<>>]
           sections == [s \in 1..3 |->
                           [results |-> GuideResults, selected |-> selected[s]]]
           a1 == add_content(sections[1], 1, none, failing[1])
           a2 == add_content(sections[2], 1, a1, failing[2])
           a3 == add_content(sections[3], 1, a2, failing[3])
       IN ret' = [op |-> "add_content", kind |-> "return", sections |-> sections,
                  failing |-> failing, inserted |-> a3.inserted]
    /\ UNCHANGED <<storeVars, fetchVars, searchVars, quotaVars, trainVars,
                   historyVars, accountVars>>

GuideNext ==
    \E selected \in [1..3 -> GuidePicks],
       failing \in {f \in [1..3 -> GuideFailures] : f[3] = {}} :
        AddContent(selected, failing)

SpecGuide == Init /\ [][GuideNext]_vars

\* The provider calls for item number k of a section's selection that raise.
FailedFor(failing, k) == \E n \in 1..4 : <<k, n>> \in failing

\* C38: each video id is inserted into the new playlist at most once across
\* the three sections, the videos of selected playlists and a result selected
\* twice included; and a selected item whose provider calls do not raise is
\* in the playlist afterwards, whatever raised for the items before it.
C38_EachVideoOnce ==
    ret.op = "add_content" =>
        /\ \A i, j \in 1..Len(ret.inserted) :
               ret.inserted[i] = ret.inserted[j] => i = j
        /\ \A s \in 1..3 : \A k \in 1..Len(ret.sections[s].selected) :
               LET item == ret.sections[s].results[ret.sections[s].selected[k]]
                   wanted == IF item.type = "playlist"
                             THEN {item.videos[v] : v \in 1..Len(item.videos)}
                             ELSE {item.id}
               IN ~FailedFor(ret.failing[s], k) =>
                      \A id \in wanted :
                          \E i \in 1..Len(ret.inserted) : ret.inserted[i] = id

\* Video b was selected twice and the playlist that holds a, c and b once;
\* the insertion of a video raised in the first section, and the playlist
\* holds a, b and c once each.
C38_Witness ==
    /\ ret.op = "add_content"
    /\ ret.sections[1].selected = <<1, 2>>
    /\ ret.failing[1] = {<<1, 1>>}
    /\ ret.sections[2].selected = <<2, 3>>
    /\ ret.failing[2] = {}
    /\ ret.sections[3].selected = <<3>>
    /\ ret.inserted = <<"b", "a", "c">>

----------------------------------------------------------------------------
(* The scoring breakdown of a training search *)

\* The number training_search prints as "Final score" for a result: the
\* title, the views and the channel count, the duration is printed only.
final_score(result, m, game_name) ==
    LET views == IF result.details THEN result.view_count ELSE 0 IN
      (IF TitleMatch(result.title, game_name) THEN 20 ELSE 0)
    + (IF views > 1000 THEN Min(10, views \div 1000) ELSE 0)
    + (IF result.channel_title \in m.trusted_channels THEN 15
       ELSE IF result.channel_title \in m.noise_channels THEN 0 - 10
       ELSE 0)

\* yt.training_search(game_name, game_type): the results that pass the noise
\* filter are shown, each with its breakdown.
TrainingSearch(game_name, game_type, response) ==
    /\ session_quota_used + BaseSearchCost <= TrainMaxQuota
    /\ LET m == models[game_type]
           r == training_search(m, session_quota_used, response)
       IN
       /\ session_quota_used' = r.used
       /\ ret' = [op |-> "training_search", kind |-> "return",
                  game_name |-> game_name, game_type |-> game_type,
                  shown |-> [i \in 1..Len(r.value) |->
                                [video |-> r.value[i],
                                 final_score |->
                                     final_score(r.value[i], m, game_name)]]]
    /\ UNCHANGED <<storeVars, fetchVars, searchVars, trainVars, historyVars,
                   accountVars>>

BreakdownNext ==
    \E g \in GameNames, d \in GameTypes,
       response \in ProviderResponses(TrainingMaxResults) :
        TrainingSearch(g, d, response)

SpecBreakdown == SearchInit /\ [][BreakdownNext]_vars

\* C39: for every candidate a training search shows, the final score of its
\* breakdown is score_video(candidate, game_type, game_name), the number
\* search_videos ranks by.
C39_BreakdownIsTheScore ==
    ret.op = "training_search" =>
        \A i \in 1..Len(ret.shown) :
            ret.shown[i].final_score
                = score_video(ret.shown[i].video, ret.game_type, ret.game_name,
                              Today)

\* The two numbers differ by what the breakdown leaves out and by the 15
\* points it gives to a trusted channel: for a candidate of no trusted
\* channel whose likes, duration, description and age add nothing to the
\* score, they are the same.
C39_SameForPlainCandidate ==
    ret.op = "training_search" =>
        \A i \in 1..Len(ret.shown) :
            LET v == ret.shown[i].video IN
            (/\ v.channel_title \notin models[ret.game_type].trusted_channels
             /\ score_video(v, ret.game_type, ret.game_name, Today)
                    = score_video([v EXCEPT !.like_count = 0,
                                            !.duration = [h |-> 0, m |-> 0, s |-> 0],
                                            !.description = <<>>,
                                            !.upload_date = [kind |-> "bad", day |-> 0]],
                                  ret.game_type, ret.game_name, Today))
                => ret.shown[i].final_score
                       = score_video(v, ret.game_type, ret.game_name, Today)

----------------------------------------------------------------------------
(* What search_videos and score_video leave alone *)

\* yt.score_video called on a result after a search, for the game of that
\* search.
ScoreAfterSearch(video) ==
    /\ sv_pc = "idle"
    /\ sv_args # NoArgs
    /\ ScoreVideo(video, sv_args.game_type, sv_args.game_name, Today)

FrameNext ==
    \/ \E g \in GameNames, d \in GameTypes, c \in Categories :
           SearchVideosStart(g, d, c)
    \/ \E response \in ProviderResponses(PatternMaxResults) :
           SearchVideosStep(response)
    \/ \E video \in Catalog : ScoreAfterSearch(video)

SpecFrame == SearchInit /\ [][FrameNext]_vars

\* C31: search_videos and score_video change no learned model and no model
\* file: over every step of a search, and over a call of score_video, both
\* exclusion sets, the trusted and the noise channels and the store of every
\* game type stay as they are; search_videos changes the quota ledger and
\* nothing else of the session.
C31_SearchAndScoreChangeNoModel ==
    [][ret'.op \in {"search_videos", "score_video"} =>
           /\ models' = models
           /\ store' = store
           /\ UNCHANGED <<fetchVars, trainVars, historyVars, accountVars>>
           /\ ret'.op = "score_video" => UNCHANGED <<quotaVars, searchVars>>]_vars

C31_Witness ==
    /\ sv_pc = "idle"
    /\ ret.op = "search_videos"
    /\ ret.kind = "return"
    /\ ret.value # <<>>
    /\ ret.failed # {}
    /\ session_quota_used > 0
    /\ models[sv_args.game_type].session_exclusions # {}
    /\ models[sv_args.game_type].noise_channels # {}

\* What the operator types at "Enter result number to flag" and "Enter number
\* to mark channel".
NumberInputs == {"abc", "0", "1", "2"}

\* int(text) as far as the typed texts go: the number, or ValueError.
int(text) ==
    CASE text = "0" -> [ok |-> TRUE, value |-> 0]
      [] text = "1" -> [ok |-> TRUE, value |-> 1]
      [] text = "2" -> [ok |-> TRUE, value |-> 2]
      [] OTHER -> [ok |-> FALSE, value |-> 0]

valid_index_below(idx, n) == idx < n

\* `if 0 <= idx < len(...)` of choices 1, 2 and 3.
valid_index(idx, n) == 0 <= idx /\ idx < n

\* seq[idx] of a Python list: from 0, a negative index counts from the end.
item(seq, idx) == IF idx < 0 THEN seq[Len(seq) + idx + 1] ELSE seq[idx + 1]

\* How training_session stands after choice 1, 2 or 3 asked for a number:
\* `typed` is the operator's answer and `offered` the length of the list the
\* number selects from.
TrainingNumber(choice, typed, offered) ==
    [op |-> "training_session", kind |-> "running",
     game_name |-> t_args.game_name, game_type |-> t_args.game_type,
     after |-> "number", choice |-> choice, typed |-> typed,
     offered |-> offered]

\* Choices 1, 2 and 3 with the number as it is typed: without results (or
\* without unclassified channels) the loop continues at once; otherwise the
\* number is parsed and checked, the result is flagged with a phrase or its
\* channel marked, "Invalid result number" / "Invalid number" / "Invalid
\* input" is printed for the rest, and the refresh is offered in every case.
TrainNumberChoice(choice, typed, phrase, refresh, response) ==
    /\ UNCHANGED <<store, fetchVars, searchVars, historyVars, accountVars, last_search_game,
                   g_args, g_sections, pc, t_args>>
    /\ pc = "train_menu"
    /\ LET offered == CASE choice = "1" -> t_results
                        [] choice = "2" ->
                             channels_to_show(t_results, TrainModel.trusted_channels)
                        [] choice = "3" ->
                             channels_to_show(t_results, TrainModel.noise_channels)
           n == int(typed)
           idx == n.value - 1
           chosen == n.ok /\ valid_index(idx, Len(offered))
           m == IF ~chosen THEN TrainModel
                ELSE CASE choice = "1" -> add_exclusion(TrainModel, phrase, FALSE)
                       [] choice = "2" ->
                            add_trusted_channel(TrainModel, item(offered, idx))
                       [] choice = "3" ->
                            add_noise_channel(TrainModel, item(offered, idx))
           targets == IF chosen /\ choice = "1"
                      THEN TrainTargets \cup {<<Lower(phrase), t_args.game_name>>}
                      ELSE TrainTargets
       IN
       IF offered = <<>>
       THEN /\ ret' = Training("running", t_args, "nothing_to_choose")
            /\ UNCHANGED <<models, sess_target, session_quota_used, t_results>>
       ELSE /\ models' = [models EXCEPT ![t_args.game_type] = m]
            /\ sess_target' = [sess_target EXCEPT ![t_args.game_type] = targets]
            /\ ret' = TrainingNumber(choice, typed, Len(offered))
            /\ IF refresh
               THEN /\ session_quota_used + BaseSearchCost <= TrainMaxQuota
                    /\ LET r == training_search(m, session_quota_used, response) IN
                       /\ session_quota_used' = r.used
                       /\ t_results' = r.value
               ELSE UNCHANGED <<session_quota_used, t_results>>

\* What the operator types at "Enter choice (1-10)" besides 1 to 10.
UnknownChoices == {"0", "11", "save"}

\* The else branch of the menu: "Invalid choice" is printed; no refresh is
\* offered and the loop asks again.
TrainInvalidChoice(choice) ==
    /\ pc = "train_menu"
    /\ choice \in UnknownChoices
    /\ ret' = [op |-> "training_session", kind |-> "running",
               game_name |-> t_args.game_name, game_type |-> t_args.game_type,
               after |-> "invalid_choice", choice |-> choice]
    /\ UNCHANGED <<storeVars, fetchVars, searchVars, historyVars, accountVars, quotaVars,
                   trainVars>>

\* The training loop with its inputs as typed, for one game.
TrainInputNext ==
    \/ \E response \in TrainResponses :
           TrainingSessionStart(<<"catan">>, "video", response)
    \/ \E choice \in {"1", "2", "3"}, typed \in NumberInputs,
          phrase \in TrainPhrases, refresh \in BOOLEAN,
          response \in TrainResponses :
           TrainNumberChoice(choice, typed, phrase, refresh, response)
    \/ \E choice \in UnknownChoices : TrainInvalidChoice(choice)
    \/ \E storage \in StorageOutcomes : TrainSaveAndExit(storage)
    \/ Restart

SpecTrainInput == Init /\ [][TrainInputNext]_vars

\* The step ends a menu choice whose input was invalid: an unknown choice, a
\* text that is not a number, or a number outside the list offered.
InvalidInputGiven ==
    /\ ret'.op = "training_session"
    /\ \/ ret'.after = "invalid_choice"
       \/ /\ ret'.after = "number"
          /\ \/ ret'.typed \in {"abc", "0"}
             \/ ret'.typed = "1" /\ ret'.offered < 1
             \/ ret'.typed = "2" /\ ret'.offered < 2

\* C19: in the training loop an out-of-range selection, a non-numeric number
\* or an unrecognised menu choice leaves the model of every game type and the
\* persisted store unchanged, and the loop goes on at its menu.
C19_InvalidInputChangesNothing ==
    [][InvalidInputGiven =>
           /\ models' = models
           /\ store' = store
           /\ pc = "train_menu"
           /\ pc' = "train_menu"]_vars

C19_Witness ==
    /\ pc = "train_menu"
    /\ ret.op = "training_session"
    /\ ret.after = "number"
    /\ ret.typed = "2"
    /\ ret.offered = 1
    /\ models[ret.game_type].session_exclusions # {}
    /\ models[ret.game_type].trusted_channels # {}
    /\ store[ret.game_type].state = "saved"

\* C18: when a training session has ended without commit, the channel
\* classifications made during it are discarded: with no session in
\* progress, the trusted and noise channels in memory are those of the last
\* commit (or of the start of the process), so that they neither influence a
\* later search nor reach the file with a later commit.
C18_AbandonedChangesDiscarded ==
    pc = "main" =>
        \A d \in GameTypes :
            /\ models[d].trusted_channels = load_model(store[d]).trusted_channels
            /\ models[d].noise_channels = load_model(store[d]).noise_channels

Next ==
    \/ StoreNext \/ FetchNext \/ QuotaNext \/ SearchNext \/ RankNext \/ NoiseNext
    \/ ScoreNext \/ DurationNext \/ PhraseNext \/ FrameNext
    \/ LedgerNext \/ HistoryNext \/ ManageNext \/ GuideNext \/ BreakdownNext
    \/ TrainNext \/ TrainInputNext

Spec == Init /\ [][Next]_vars

====
